---- MODULE Spec2Model ----
(***************************************************************************)
(* Model of the BITalino acquisition session (src/src/bitalino.rs): the    *)
(* fields of struct Bitalino, the command protocol of start / stop /       *)
(* version / state / trigger / pwm / set_battery_threshold, and the batch  *)
(* read loop of read_frames_timed with its CRC-4 check, frame decoding and *)
(* sequence-gap accounting.                                                *)
(*                                                                         *)
(* Option<T> is modelled as a sequence: None is <<>>, Some(x) is <<x>>.    *)
(* A byte buffer is a sequence of integers 0..255; Rust index i is TLA+    *)
(* index i + 1.  The transport is the environment: every write, flush and  *)
(* read may succeed or fail, and the bytes it delivers are inputs.         *)
(***************************************************************************)
EXTENDS Integers, Sequences, FiniteSets, TLC

VARIABLES
    active_channels,  \* Bitalino.active_channels : Vec<u8>
    frame_size,       \* Bitalino.frame_size : usize
    sampling_rate,    \* Bitalino.sampling_rate : SamplingRate (1, 10, 100, 1000)
    start_time,       \* Bitalino.start_time : Option<Instant>; the instant is
                      \* represented by the time elapsed since it was taken
    last_seq,         \* Bitalino.last_seq : Option<u8>
    is_bitalino2,     \* Bitalino.is_bitalino2 : bool
    pc,               \* "ready", or the name of the call that is blocked in its read loop
    op,               \* name of the current / most recent call
    args,             \* arguments of the current / most recent call, followed by what
                      \* the transport delivered to version() and state()
    ret,              \* what the most recent call returned
    written,          \* bytes handed to the transport by the current / most recent call
    reads,            \* transport reads issued by the current / most recent call
    n_frames,         \* read_frames_timed: argument
    i,                \* read_frames_timed: loop counter of `for _ in 0..n_frames`
    buffer,           \* read_frames_timed: local `buffer`
    frames,           \* read_frames_timed: local `frames`
    crc_errors,       \* read_frames_timed: local `crc_errors`
    sequence_gaps,    \* read_frames_timed: local `sequence_gaps`
    timestamp_us,     \* read_frames_timed: local `timestamp_us`
    response,         \* version: local `response`, one character per byte
    byte_read,        \* version: what the read of the current iteration returned, if it has
    wire,             \* what the current / most recent call did on the sending side of the
                      \* transport, in order: bytes written, flushes, settle delays
    max_retries,      \* BluetoothConnector.max_retries : u32
    retry_delay,      \* BluetoothConnector.retry_delay, in milliseconds
    scan_timeout,     \* BluetoothConnector.scan_timeout, in clock ticks
    bluez,            \* whether the build has the feature "bluez"
    cpc,              \* position of pair_and_connect: "call", "scan", "pair", "trust", "loop",
                      \* a step of open_rfcomm / open_rfcomm_raw, "verify", "returned"
    attempt,          \* pair_and_connect: loop variable of `for attempt in 0..max_retries`
    last_error,       \* pair_and_connect: local `last_error`
    connected,        \* what pair_and_connect returned
    fds,              \* descriptors open in the process: <<attempt, "fd" or "stream">>
    slept,            \* delays slept by pair_and_connect so far, in milliseconds
    opens,            \* calls of open_rfcomm / open_rfcomm_raw so far
    verifies,         \* calls of verify_connected so far
    now,              \* wait_for_device: the clock, in ticks
    deadline,         \* wait_for_device: local `deadline`
    event,            \* wait_for_device: the item the discovery stream has ready, if any
    device            \* pair_and_connect_async: local `device`, as BlueZ holds it

session == <<active_channels, frame_size, sampling_rate, start_time, last_seq, is_bitalino2>>
acquisition == <<active_channels, frame_size, start_time, last_seq>>
locals == <<n_frames, i, buffer, frames, crc_errors, sequence_gaps, timestamp_us, response, byte_read>>
driver == <<active_channels, frame_size, sampling_rate, start_time, last_seq, is_bitalino2,
            pc, op, args, ret, written, reads,
            n_frames, i, buffer, frames, crc_errors, sequence_gaps, timestamp_us, response, byte_read,
            wire>>
configuration == <<max_retries, retry_delay, scan_timeout, bluez>>
connection == <<max_retries, retry_delay, scan_timeout, bluez, cpc, attempt, last_error,
                connected, fds, slept, opens, verifies, now, deadline, event, device>>
vars == <<active_channels, frame_size, sampling_rate, start_time, last_seq, is_bitalino2,
          pc, op, args, ret, written, reads,
          n_frames, i, buffer, frames, crc_errors, sequence_gaps, timestamp_us, response, byte_read,
          wire,
          max_retries, retry_delay, scan_timeout, bluez, cpc, attempt, last_error, connected,
          fds, slept, opens, verifies, now, deadline, event, device>>

(***************************************************************************)
(* Bounds of the model.                                                    *)
(***************************************************************************)
MaxFrames == 2      \* largest n_frames passed to read_frames_timed
MaxElapsed == 1     \* clock ticks observed after a start instant was taken
MaxSeqFrames == 1   \* largest n_frames in the specification over all sequence numbers
MaxCrcLen == 8      \* longest buffer handed to verify_crc in the codec specification
MaxVersionBytes == 66   \* longest run of payload bytes a device sends as its version
MaxRetries == 6     \* largest max_retries a connector is configured with
MaxVersionReads == 3   \* reads of one version() call that the step-by-step model counts
MaxScanTime == 3    \* clock ticks observed while wait_for_device scans

(***************************************************************************)
(* Inputs the caller and the transport are drawn from.                     *)
(***************************************************************************)
RateInputs == {10, 2000}
ChannelInputs == {<<6, 255>>, <<3, 0, 3, 9>>, <<5, 4, 3, 2, 1, 0>>}
AllRateInputs == {0, 1, 10, 100, 1000, 2000}
AllChannelInputs ==
    { <<>>, <<255, 6>>, <<0>>, <<3, 0, 3, 9>>, <<2, 7, 4, 1>>,
      <<4, 3, 2, 1>>, <<0, 1, 2, 4, 5>>, <<5, 4, 3, 2, 1, 0>> }
SeqInputs == {0, 1, 8}
RetryDelayInputs == {500, 20}
ScanTimeouts == {0, 1, 2}
DiscoveryEvents == {"target", "other", "end"}   \* DeviceAdded(address), any other event, end of stream
RateValues == 0..65535      \* every u16 handed to the sampling-rate parser
AllSeqs == 0..15
CodecChannels ==            \* channel lists a start can have stored, by channel count
    { <<>>, <<0>>, <<2, 5>>, <<0, 1, 2>>, <<0, 1, 2, 3>>, <<0, 1, 2, 3, 4>>,
      <<0, 1, 2, 3, 4, 5>> }
CodecStrides == {0, 59}
CodecBuffers(len) ==        \* raw buffers of len bytes: byte k is (a + m * k) mod 256
    { [k \in 1..len |-> (a + m * k) % 256] : a \in 0..255, m \in CodecStrides }
NibbleMasks == {0, 5}       \* XOR-ed into the checksum nibble of a delivered frame
IoOutcomes == {"ok", "write_err", "flush_err"}
IoFailures == IoOutcomes \ {"ok"}
VersionTexts ==             \* version strings a device may answer with
    { <<"B", "I", "T", "a", "l", "i", "n", "o", "_", "v", "5", ".", "2">>,
      <<"B", "I", "T", "a", "l", "i", "n", "o", " ", "V", "5", ".", "2">>,
      <<"B", "_", "v", "5", ".", "2">>,
      <<"v", "4", ".", "2">>,
      <<"v", "4", ".", "1">>,
      <<"V", "4", ".", "1", "9">>,
      <<"v", "4", ".", "2", "5">>,
      <<"v", "1", "0">>,
      <<"v", "1", "0", ".", "5">>,
      <<"_", "v", "3", ".", "9">>,
      <<"v", "5">>,
      <<"v", "5", " ", "b">>,
      <<"d", "e", "v", " ", "v", "5", ".", "2">>,
      <<"v", "e", "r", "5", ".", "2">>,
      <<"v">>,
      <<"B", "I", "T">>,
      <<"v", ".", "5">>,
      <<"v", "4", ".">>,
      <<"v", "0", "4", ".", "5">>,
      <<"x", "v", "9">>,
      <<"5", ".", "2">>,
      <<"v", "5", ".", "2", ".", "1">>,
      <<"v", "_", "v", "6">>,
      <<" ", "V", "4", ".", "1", " ">> }
Read(r, late) == [read |-> r, late |-> late]
Bytes(text) == [k \in 1..Len(text) |-> Read(text[k], FALSE)]
LateAtEnd(events) == [events EXCEPT ![Len(events)].late = TRUE]
VersionReads ==             \* outcomes of the reads of the response loop of version()
    { Bytes(<<"B", "_", "v", "5", ".", "2">>) \o <<Read("\n", FALSE)>>,
      <<Read("\n", FALSE)>> \o Bytes(<<" ", "V", "4", ".", "1", " ">>) \o <<Read("TimedOut", FALSE)>>,
      LateAtEnd(Bytes(<<"B", "I", "T">>)),
      <<Read("WouldBlock", TRUE)>>,
      <<Read("Other", FALSE)>> }
VersionPrefixes ==
    { <<>>, <<Read("\n", FALSE)>>, <<Read("NUL", FALSE), Read("\r", FALSE)>>,
      <<Read("WouldBlock", FALSE)>>, <<Read("Ok(0)", FALSE)>>, <<Read("TimedOut", FALSE)>> }
VersionEnds ==
    { <<Read("\n", FALSE)>>, <<Read("\r", FALSE)>>, <<Read("NUL", FALSE)>>,
      <<Read("Ok(0)", FALSE), Read("Ok(0)", TRUE)>>, <<Read("TimedOut", FALSE), Read("TimedOut", TRUE)>>,
      <<Read("WouldBlock", FALSE), Read("WouldBlock", TRUE)>>, <<Read("Other", FALSE)>>,
      <<Read("WouldBlock", FALSE), Read("\n", FALSE), Read("x", TRUE)>> }
FramedTexts == {<<>>, <<"v", "5">>, <<"B", "_", "v", "4", ".", "2">>}
LongTexts == {[k \in 1..n |-> "A"] : n \in {63, 64, MaxVersionBytes}}
AllVersionReads ==
    {Bytes(t) \o <<Read("\n", FALSE)>> : t \in VersionTexts \cup LongTexts}
        \cup {p \o Bytes(t) \o x : p \in VersionPrefixes, t \in FramedTexts, x \in VersionEnds}
        \cup {LateAtEnd(p \o Bytes(t)) : p \in VersionPrefixes, t \in FramedTexts \ {<<>>}}
ThresholdInputs == {7, 255}
OutputInputs == {<<>>, <<1>>, <<2, 1, 0, 1>>}
PwmInputs == {0, 255}
StateBodies ==              \* 16-byte answers to the state command, checksum nibble aside
    { [k \in 1..16 |-> IF k = 16 THEN 160 ELSE IF k = 15 THEN 63 ELSE IF k % 2 = 0 THEN 3 ELSE 255],
      [k \in 1..16 |-> (37 * k) % 256] }
CodecStateBuffers ==        \* 16-byte buffers, as state() reads them, under every checksum nibble
    { [body EXCEPT ![16] = (body[16] - (body[16] % 16)) + x] : body \in StateBodies, x \in 0..15 }
    \cup { [k \in 1..16 |-> (17 * a + m * k) % 256] : a \in 0..15, m \in {0, 59} }

(***************************************************************************)
(* Option and byte helpers.                                                *)
(***************************************************************************)
None == <<>>
Some(x) == <<x>>
IsSome(o) == Len(o) = 1
Unwrap(o) == o[1]

Pow2(k) == 2 ^ k
Bit(v, k) == (v \div Pow2(k)) % 2
Shl8(v, k) == (v * Pow2(k)) % 256            \* u8 << k
Shr(v, k) == v \div Pow2(k)                  \* >> k

RECURSIVE And(_, _)
And(a, b) ==                                 \* a & b
    IF a = 0 \/ b = 0 THEN 0
    ELSE (a % 2) * (b % 2) + 2 * And(a \div 2, b \div 2)

RECURSIVE Or(_, _)
Or(a, b) ==                                  \* a | b
    IF a = 0 THEN b
    ELSE IF b = 0 THEN a
    ELSE (IF (a % 2) + (b % 2) > 0 THEN 1 ELSE 0) + 2 * Or(a \div 2, b \div 2)

RECURSIVE Xor(_, _)
Xor(a, b) ==                                 \* a ^ b
    IF a = 0 THEN b
    ELSE IF b = 0 THEN a
    ELSE (((a % 2) + (b % 2)) % 2) + 2 * Xor(a \div 2, b \div 2)

(***************************************************************************)
(* Protocol constants.                                                     *)
(***************************************************************************)
MAX_CONNECT_RETRIES == 3
RETRY_DELAY_MS == 500
CMD_STOP == 0
CMD_VERSION == 7
CMD_STATE == 11
CMD_PWM_PREFIX == 163
CMD_TRIGGER_2 == 179
CMD_TRIGGER_1 == 3

(***************************************************************************)
(* SamplingRate.                                                           *)
(***************************************************************************)
\* Variant: the codes of 10 Hz and 100 Hz change places.
to_bits_swapped(rate) ==
    CASE rate = 1 -> 0
      [] rate = 10 -> 2
      [] rate = 100 -> 1
      [] rate = 1000 -> 3

to_bits(rate) ==
    CASE rate = 1 -> 0
      [] rate = 10 -> 1
      [] rate = 100 -> 2
      [] rate = 1000 -> 3

\* Variant: an unsupported rate falls back to the default rate.
from_u16_defaulting(value) ==
    IF value \in {1, 10, 100, 1000}
    THEN [ok |-> TRUE, rate |-> value]
    ELSE [ok |-> TRUE, rate |-> 1000]

from_u16_checked(value) ==
    IF value \in {1, 10, 100, 1000}
    THEN [ok |-> TRUE, rate |-> value]
    ELSE [ok |-> FALSE, rate |-> 0]

(***************************************************************************)
(* Frame codec.                                                            *)
(***************************************************************************)
\* Variant: the bit count is rounded down to whole bytes.
calculate_frame_size_floor(n) ==
    IF n = 0 THEN 0
    ELSE LET bits == IF n <= 4 THEN 12 + 10 * n ELSE 52 + 6 * (n - 4)
         IN bits \div 8

calculate_frame_size(n) ==
    IF n = 0 THEN 0
    ELSE LET bits == IF n <= 4 THEN 12 + 10 * n ELSE 52 + 6 * (n - 4)
         IN (bits + 7) \div 8

\* One iteration of the inner loop of verify_crc on the u8 accumulator.
\* (The tests `x >= 0` below are always true: they only make the evaluation
\* of the accumulator strict.)
crc_bit(crc, b) ==
    LET s == Shl8(crc, 1)
        f == IF Bit(s, 4) = 1 THEN Xor(s, 3) ELSE s
    IN Xor(f, b)

crc_byte(crc, byte) ==
    LET RECURSIVE go(_, _)
        go(x, bit) == IF x >= 0 /\ bit >= 0
                      THEN go(crc_bit(x, Bit(byte, bit)), bit - 1)
                      ELSE x
    IN go(crc, 7)

crc_of(data) ==
    LET len == Len(data)
        RECURSIVE go(_, _)
        go(x, k) == IF x >= 0 /\ k <= len
                    THEN go(crc_byte(x, IF k = len THEN And(data[k], 240) ELSE data[k]), k + 1)
                    ELSE x
    IN go(0, 1)

\* Variant: only three bits of the checksum are compared.
verify_crc_3bit(data) ==
    IF Len(data) = 0 THEN FALSE
    ELSE And(data[Len(data)], 7) = And(crc_of(data), 7)

verify_crc(data) ==
    IF Len(data) = 0 THEN FALSE
    ELSE And(data[Len(data)], 15) = And(crc_of(data), 15)

\* Variant: the fifth channel keeps the whole byte instead of its low nibble.
decode_frame_wide(data, n_channels) ==
    LET last == Len(data)
        D(k) == data[last - k]
        a0 == Or(And(D(1), 15) * 64, Shr(D(2), 2))
        a1 == Or(And(D(2), 3) * 256, D(3))
        a2 == Or(D(4) * 4, Shr(D(5), 6))
        a3 == Or(And(D(5), 63) * 16, Shr(D(6), 4))
        a4 == Or(D(6) * 4, Shr(D(7), 6))
        a5 == And(D(7), 63)
    IN [seq |-> Shr(D(0), 4),
        digital |-> <<Bit(D(1), 7), Bit(D(1), 6), Bit(D(1), 5), Bit(D(1), 4)>>,
        analog |-> (IF n_channels > 0 THEN <<a0>> ELSE <<>>)
                   \o (IF n_channels > 1 THEN <<a1>> ELSE <<>>)
                   \o (IF n_channels > 2 THEN <<a2>> ELSE <<>>)
                   \o (IF n_channels > 3 THEN <<a3>> ELSE <<>>)
                   \o (IF n_channels > 4 THEN <<a4>> ELSE <<>>)
                   \o (IF n_channels > 5 THEN <<a5>> ELSE <<>>)]

\* Variant: the sixth analog value is read one byte further down.
decode_frame_reads_below(n_channels) ==
    {0, 1}
    \cup (IF n_channels > 0 THEN {1, 2} ELSE {})
    \cup (IF n_channels > 1 THEN {2, 3} ELSE {})
    \cup (IF n_channels > 2 THEN {4, 5} ELSE {})
    \cup (IF n_channels > 3 THEN {5, 6} ELSE {})
    \cup (IF n_channels > 4 THEN {6, 7} ELSE {})
    \cup (IF n_channels > 5 THEN {8} ELSE {})

\* The bytes decode_frame indexes with n_channels active channels: the k of
\* every `data[last - k]` it evaluates.
decode_frame_reads(n_channels) ==
    {0, 1}
    \cup (IF n_channels > 0 THEN {1, 2} ELSE {})
    \cup (IF n_channels > 1 THEN {2, 3} ELSE {})
    \cup (IF n_channels > 2 THEN {4, 5} ELSE {})
    \cup (IF n_channels > 3 THEN {5, 6} ELSE {})
    \cup (IF n_channels > 4 THEN {6, 7} ELSE {})
    \cup (IF n_channels > 5 THEN {7} ELSE {})

\* Variant: the second analog value takes three bits of data[last - 2].
decode_frame_overlap(data, n_channels) ==
    LET last == Len(data)
        D(k) == data[last - k]
        a0 == Or(And(D(1), 15) * 64, Shr(D(2), 2))
        a1 == Or(And(D(2), 7) * 256, D(3))
        a2 == Or(D(4) * 4, Shr(D(5), 6))
        a3 == Or(And(D(5), 63) * 16, Shr(D(6), 4))
        a4 == Or(And(D(6), 15) * 4, Shr(D(7), 6))
        a5 == And(D(7), 63)
    IN [seq |-> Shr(D(0), 4),
        digital |-> <<Bit(D(1), 7), Bit(D(1), 6), Bit(D(1), 5), Bit(D(1), 4)>>,
        analog |-> (IF n_channels > 0 THEN <<a0>> ELSE <<>>)
                   \o (IF n_channels > 1 THEN <<a1>> ELSE <<>>)
                   \o (IF n_channels > 2 THEN <<a2>> ELSE <<>>)
                   \o (IF n_channels > 3 THEN <<a3>> ELSE <<>>)
                   \o (IF n_channels > 4 THEN <<a4>> ELSE <<>>)
                   \o (IF n_channels > 5 THEN <<a5>> ELSE <<>>)]

decode_frame(data, n_channels) ==
    LET last == Len(data)       \* TLA+ index of Rust data[last]
        D(k) == data[last - k]  \* Rust data[last - k]
        a0 == Or(And(D(1), 15) * 64, Shr(D(2), 2))
        a1 == Or(And(D(2), 3) * 256, D(3))
        a2 == Or(D(4) * 4, Shr(D(5), 6))
        a3 == Or(And(D(5), 63) * 16, Shr(D(6), 4))
        a4 == Or(And(D(6), 15) * 4, Shr(D(7), 6))
        a5 == And(D(7), 63)
    IN [seq |-> Shr(D(0), 4),
        digital |-> <<Bit(D(1), 7), Bit(D(1), 6), Bit(D(1), 5), Bit(D(1), 4)>>,
        analog |-> (IF n_channels > 0 THEN <<a0>> ELSE <<>>)
                   \o (IF n_channels > 1 THEN <<a1>> ELSE <<>>)
                   \o (IF n_channels > 2 THEN <<a2>> ELSE <<>>)
                   \o (IF n_channels > 3 THEN <<a3>> ELSE <<>>)
                   \o (IF n_channels > 4 THEN <<a4>> ELSE <<>>)
                   \o (IF n_channels > 5 THEN <<a5>> ELSE <<>>)]

(***************************************************************************)
(* Version string handling.  A string is a sequence of one-character       *)
(* strings (the response is ASCII, so from_utf8_lossy changes nothing).    *)
(***************************************************************************)
UpperAlpha == <<"A", "B", "C", "D", "E", "F", "G", "H", "I", "J", "K", "L", "M",
                "N", "O", "P", "Q", "R", "S", "T", "U", "V", "W", "X", "Y", "Z">>
LowerAlpha == <<"a", "b", "c", "d", "e", "f", "g", "h", "i", "j", "k", "l", "m",
                "n", "o", "p", "q", "r", "s", "t", "u", "v", "w", "x", "y", "z">>
DigitChars == <<"0", "1", "2", "3", "4", "5", "6", "7", "8", "9">>

IndexOf(alpha, c) == IF \E k \in 1..Len(alpha) : alpha[k] = c
                     THEN CHOOSE k \in 1..Len(alpha) : alpha[k] = c
                     ELSE 0
to_lowercase(str) ==
    [k \in 1..Len(str) |-> IF IndexOf(UpperAlpha, str[k]) > 0
                           THEN LowerAlpha[IndexOf(UpperAlpha, str[k])]
                           ELSE str[k]]
IsSpace(c) == c \in {" ", "\t", "\n", "\r"}
RECURSIVE trim_start(_)
trim_start(str) == IF str # <<>> /\ IsSpace(Head(str)) THEN trim_start(Tail(str)) ELSE str
RECURSIVE trim_end(_)
trim_end(str) == IF str # <<>> /\ IsSpace(str[Len(str)])
                 THEN trim_end(SubSeq(str, 1, Len(str) - 1)) ELSE str
trim(str) == trim_end(trim_start(str))

\* str.find(pat): 0-based position of the first occurrence, as an Option.
find(str, pat) ==
    LET hits == {p \in 0..(Len(str) - Len(pat)) : SubSeq(str, p + 1, p + Len(pat)) = pat}
    IN IF hits = {} THEN None ELSE Some(CHOOSE p \in hits : \A q \in hits : p <= q)
\* str[from..].chars().take(n)
take_from(str, from, n) ==
    SubSeq(str, from + 1, IF from + n <= Len(str) THEN from + n ELSE Len(str))

IsDigit(c) == IndexOf(DigitChars, c) > 0
AllDigits(str) == \A k \in 1..Len(str) : IsDigit(str[k])
RECURSIVE DigitsValue(_)
DigitsValue(str) ==
    IF str = <<>> THEN 0
    ELSE 10 * DigitsValue(SubSeq(str, 1, Len(str) - 1)) + (IndexOf(DigitChars, str[Len(str)]) - 1)

\* <f32 as FromStr>::from_str on a short token: [sign] (inf | infinity | nan |
\* digits [. digits] [e [sign] digits]) with at least one mantissa digit.  The
\* result is kind "num" with value (-1)^neg * mant * 10^(exp - frac), or a special.
NotAFloat == [ok |-> FALSE, kind |-> "err", neg |-> FALSE, mant |-> 0, frac |-> 0, exp |-> 0]
parse_f32(tok) ==
    LET signed == tok # <<>> /\ tok[1] \in {"+", "-"}
        neg == tok # <<>> /\ tok[1] = "-"
        body == to_lowercase(IF signed THEN Tail(tok) ELSE tok)
        epos == find(body, <<"e">>)
        mantissa == IF IsSome(epos) THEN SubSeq(body, 1, Unwrap(epos)) ELSE body
        exponent == IF IsSome(epos) THEN SubSeq(body, Unwrap(epos) + 2, Len(body)) ELSE <<>>
        esigned == exponent # <<>> /\ exponent[1] \in {"+", "-"}
        edigits == IF esigned THEN Tail(exponent) ELSE exponent
        dpos == find(mantissa, <<".">>)
        ipart == IF IsSome(dpos) THEN SubSeq(mantissa, 1, Unwrap(dpos)) ELSE mantissa
        fpart == IF IsSome(dpos) THEN SubSeq(mantissa, Unwrap(dpos) + 2, Len(mantissa)) ELSE <<>>
    IN  IF body = <<"i", "n", "f">> \/ body = <<"i", "n", "f", "i", "n", "i", "t", "y">>
        THEN [NotAFloat EXCEPT !.ok = TRUE, !.kind = "inf", !.neg = neg]
        ELSE IF body = <<"n", "a", "n">>
        THEN [NotAFloat EXCEPT !.ok = TRUE, !.kind = "nan", !.neg = neg]
        ELSE IF /\ AllDigits(ipart) /\ AllDigits(fpart)
                /\ Len(ipart) + Len(fpart) > 0
                /\ (IsSome(epos) => (edigits # <<>> /\ AllDigits(edigits)))
        THEN [ok |-> TRUE, kind |-> "num", neg |-> neg,
              mant |-> DigitsValue(ipart \o fpart), frac |-> Len(fpart),
              exp |-> IF esigned /\ exponent[1] = "-"
                      THEN 0 - DigitsValue(edigits) ELSE DigitsValue(edigits)]
        ELSE NotAFloat

\* num >= 4.2 for a parsed token (mant * 10^(exp - frac) >= 42 / 10).
ge_4_2(num) ==
    CASE num.kind = "inf" -> ~num.neg
      [] num.kind = "nan" -> FALSE
      [] num.kind = "num" ->
            /\ ~num.neg
            /\ LET sh == num.exp - num.frac
               IN IF sh > 0 THEN num.mant >= 1      \* mant * 10^sh >= 10
                  ELSE num.mant * 10 >= 42 * (10 ^ (0 - sh))

detect_bitalino2(version) ==
    LET version_lower == to_lowercase(version)
        p2 == find(version_lower, <<"_", "v">>)
        p1 == find(version_lower, <<"v">>)
    IN  IF IsSome(p2) \/ IsSome(p1)
        THEN LET version_num == IF IsSome(p2) THEN take_from(version_lower, Unwrap(p2) + 2, 3)
                                ELSE take_from(version_lower, Unwrap(p1) + 1, 3)
                 num == parse_f32(version_num)
             IN IF num.ok THEN ge_4_2(num) ELSE FALSE
        ELSE FALSE

(***************************************************************************)
(* Channel normalisation of start_with_rate: filter, sort_unstable, dedup. *)
(***************************************************************************)
filter_channels(channels) == SelectSeq(channels, LAMBDA ch : ch < 6)

RECURSIVE insert_sorted(_, _)
insert_sorted(s, x) ==
    IF s = <<>> THEN <<x>>
    ELSE IF x <= Head(s) THEN <<x>> \o s
    ELSE <<Head(s)>> \o insert_sorted(Tail(s), x)

RECURSIVE sort_unstable(_)
sort_unstable(s) ==
    IF s = <<>> THEN <<>> ELSE insert_sorted(sort_unstable(Tail(s)), Head(s))

RECURSIVE dedup(_)
dedup(s) ==
    IF Len(s) <= 1 THEN s
    ELSE IF s[1] = s[2] THEN dedup(Tail(s))
    ELSE <<s[1]>> \o dedup(Tail(s))

valid_channels(channels) == dedup(sort_unstable(filter_channels(channels)))

RECURSIVE channel_bits(_)
channel_bits(chs) ==
    IF chs = <<>> THEN 0 ELSE Or(Shl8(1, 2 + Head(chs)), channel_bits(Tail(chs)))

\* Variant: the rate code is shifted to the wrong position.
rate_cmd_shift5(rate) == Or(Shl8(to_bits(rate), 5), 3)

rate_cmd(rate) == Or(Shl8(to_bits(rate), 6), 3)
start_cmd(chs) == Or(channel_bits(chs), 1)

(***************************************************************************)
(* Transport writes.  send_command writes one byte, flushes and sleeps;    *)
(* the byte reaches the transport unless write_all itself fails.           *)
(***************************************************************************)
Sent(w, cmd, io) == IF io = "write_err" THEN w ELSE Append(w, cmd)

\* Events on the sending side of the transport (a settle delay is a sleep of
\* COMMAND_DELAY or STOP_DELAY).
Written(byte) == [ev |-> "write", byte |-> byte]
Flushed == [ev |-> "flush"]
FlushFailed == [ev |-> "flush_err"]
Slept == [ev |-> "sleep"]

\* send_command: write_all, flush, sleep(COMMAND_DELAY), each `?` returning early.
Wire(w, cmd, io) ==
    IF io = "write_err" THEN w
    ELSE IF io = "flush_err" THEN w \o <<Written(cmd), FlushFailed>>
    ELSE w \o <<Written(cmd), Flushed, Slept>>

Pending == [status |-> "Pending", error |-> "", value |-> None]
Ok(v) == [status |-> "Ok", error |-> "", value |-> v]
Err(e) == [status |-> "Err", error |-> e, value |-> None]

NoReadLocals ==
    /\ n_frames' = 0
    /\ i' = 0
    /\ buffer' = <<>>
    /\ frames' = <<>>
    /\ crc_errors' = 0
    /\ sequence_gaps' = 0
    /\ timestamp_us' = 0

NoLocals ==
    /\ NoReadLocals
    /\ response' = <<>>
    /\ byte_read' = None

\* Variant: stop() forgets to reset last_seq.
ClearAcquisition_keep_seq ==
    /\ active_channels' = <<>>
    /\ frame_size' = 0
    /\ start_time' = None
    /\ UNCHANGED last_seq

\* The four assignments of stop() after its command was sent.
ClearAcquisition ==
    /\ active_channels' = <<>>
    /\ frame_size' = 0
    /\ start_time' = None
    /\ last_seq' = None

\* Effect of stop() on the acquisition fields, given the outcome of its send_command.
StopEffect(io) ==
    IF io = "ok" THEN ClearAcquisition ELSE UNCHANGED acquisition

\* The stream pair_and_connect returned to the caller that built the session:
\* default configuration of the manual build, first attempt successful.
Connected ==
    /\ max_retries = MAX_CONNECT_RETRIES
    /\ retry_delay = RETRY_DELAY_MS
    /\ scan_timeout = 0
    /\ bluez = FALSE
    /\ cpc = "returned"
    /\ attempt = 0
    /\ last_error = None
    /\ connected = Ok(Some(<<0, "fd">>))
    /\ fds = {<<0, "fd">>}
    /\ slept = <<>>
    /\ opens = 1
    /\ verifies = 1
    /\ now = 0
    /\ deadline = 0
    /\ event = None
    /\ device = None

\* Bitalino::from_rfcomm
NewSession ==
    /\ active_channels = <<>>
    /\ frame_size = 0
    /\ sampling_rate = 1000
    /\ start_time = None
    /\ last_seq = None
    /\ is_bitalino2 = FALSE
    /\ pc = "ready"
    /\ op = "from_rfcomm"
    /\ args = <<>>
    /\ ret = [status |-> "None", error |-> "", value |-> None]
    /\ written = <<>>
    /\ reads = 0
    /\ n_frames = 0
    /\ i = 0
    /\ buffer = <<>>
    /\ frames = <<>>
    /\ crc_errors = 0
    /\ sequence_gaps = 0
    /\ timestamp_us = 0
    /\ response = <<>>
    /\ byte_read = None
    /\ wire = <<>>

Init ==
    /\ NewSession
    /\ Connected

(***************************************************************************)
(* The monotonic clock advances while a start instant is held.             *)
(***************************************************************************)
Tick ==
    /\ IsSome(start_time)
    /\ Unwrap(start_time) < MaxElapsed
    /\ start_time' = Some(Unwrap(start_time) + 1)
    /\ UNCHANGED <<active_channels, frame_size, sampling_rate, last_seq, is_bitalino2,
                   pc, op, args, ret, written, wire, connection, reads, locals>>

\* Variant: stop() puts the sampling rate back to its default.
Stop_default_rate ==
    /\ pc = "ready"
    /\ \E io \in IoOutcomes :
         /\ written' = Sent(<<>>, CMD_STOP, io)
         /\ wire' = Wire(<<>>, CMD_STOP, io)
         /\ StopEffect(io)
         /\ ret' = IF io = "ok" THEN Ok(None) ELSE Err("Io")
    /\ op' = "stop"
    /\ UNCHANGED connection
    /\ args' = <<>>
    /\ reads' = 0
    /\ NoLocals
    /\ sampling_rate' = 1000
    /\ UNCHANGED <<is_bitalino2, pc>>

Stop ==
    /\ pc = "ready"
    /\ \E io \in IoOutcomes :
         /\ written' = Sent(<<>>, CMD_STOP, io)
         /\ wire' = Wire(<<>>, CMD_STOP, io)
         /\ StopEffect(io)
         /\ ret' = IF io = "ok" THEN Ok(None) ELSE Err("Io")
    /\ op' = "stop"
    /\ UNCHANGED connection
    /\ args' = <<>>
    /\ reads' = 0
    /\ NoLocals
    /\ UNCHANGED <<sampling_rate, is_bitalino2, pc>>

\* Variant: the new sampling rate is not stored.
StoreConfiguration_no_rate(rate, chs) ==
    /\ active_channels' = chs
    /\ frame_size' = calculate_frame_size(Len(chs))
    /\ UNCHANGED sampling_rate
    /\ start_time' = Some(0)
    /\ last_seq' = None

\* "Store active configuration" at the end of start_with_rate.
StoreConfiguration(rate, chs) ==
    /\ active_channels' = chs
    /\ frame_size' = calculate_frame_size(Len(chs))
    /\ sampling_rate' = rate
    /\ start_time' = Some(0)
    /\ last_seq' = None

start_with_rate(rate, channels) ==
    LET chs == valid_channels(channels)
        w1 == <<CMD_STOP>>
        w2 == Append(w1, rate_cmd(rate))
        w3 == Append(w2, start_cmd(chs))
        v1 == Append(Wire(<<>>, CMD_STOP, "ok"), Slept)   \* stop, `sleep(COMMAND_DELAY)`
        v2 == Wire(v1, rate_cmd(rate), "ok")
        v3 == Wire(v2, start_cmd(chs), "ok")
    IN  \/ \E io \in IoFailures :        \* `if let Err(e) = self.stop()`
              /\ written' = Sent(<<>>, CMD_STOP, io)
              /\ wire' = Wire(<<>>, CMD_STOP, io)
              /\ StopEffect(io)
              /\ ret' = Err("StopFailed")
              /\ UNCHANGED <<sampling_rate, is_bitalino2>>
        \/ /\ chs = <<>>                 \* `if valid_channels.is_empty()`
           /\ written' = w1
           /\ wire' = v1
           /\ StopEffect("ok")
           /\ ret' = Err("NoValidChannels")
           /\ UNCHANGED <<sampling_rate, is_bitalino2>>
        \/ /\ chs # <<>>                 \* `self.send_command(rate_cmd)?`
           /\ \E io \in IoFailures :
                /\ written' = Sent(w1, rate_cmd(rate), io)
                /\ wire' = Wire(v1, rate_cmd(rate), io)
           /\ StopEffect("ok")
           /\ ret' = Err("Io")
           /\ UNCHANGED <<sampling_rate, is_bitalino2>>
        \/ /\ chs # <<>>                 \* `self.send_command(cmd)?`
           /\ \E io \in IoFailures :
                /\ written' = Sent(w2, start_cmd(chs), io)
                /\ wire' = Wire(v2, start_cmd(chs), io)
           /\ StopEffect("ok")
           /\ ret' = Err("Io")
           /\ UNCHANGED <<sampling_rate, is_bitalino2>>
        \/ /\ chs # <<>>                 \* both commands sent
           /\ written' = w3
           /\ wire' = v3
           /\ StoreConfiguration(rate, chs)
           /\ ret' = Ok(Some(rate))
           /\ UNCHANGED is_bitalino2

\* start(sampling_rate, channels)
StartCall(rate_in, channels) ==
    /\ pc = "ready"
    /\ LET parsed == from_u16_checked(rate_in)
       IN  IF parsed.ok THEN start_with_rate(parsed.rate, channels)
           ELSE /\ written' = <<>>
                /\ wire' = <<>>
                /\ ret' = Err("InvalidRate")
                /\ UNCHANGED session
    /\ op' = "start"
    /\ UNCHANGED connection
    /\ args' = <<rate_in, channels>>
    /\ reads' = 0
    /\ NoLocals
    /\ UNCHANGED pc

Start ==
    /\ pc = "ready"
    /\ \E rate_in \in RateInputs, channels \in ChannelInputs : StartCall(rate_in, channels)

StartAny ==
    /\ pc = "ready"
    /\ \E rate_in \in AllRateInputs, channels \in AllChannelInputs :
         StartCall(rate_in, channels)

\* The response loop of version() over the outcomes of its successive
\* one-byte reads.  An outcome is the byte read (a character, "NUL" for the
\* zero byte), "Ok(0)", or the kind of the read error ("WouldBlock",
\* "TimedOut", "Other"), with `late`: the deadline has passed when the loop
\* tests it after this read.  The result tells whether the loop was left
\* (done), with which error ("" after `break`), the response and the number
\* of reads issued.
Delimiters == {"\n", "\r", "NUL"}

\* Variant: the length of the response is not capped.
loop_iteration_uncapped(st, e) ==
    LET resp == st.response
        next == [st EXCEPT !.reads = st.reads + 1]
        broke(rs) == [next EXCEPT !.done = TRUE, !.response = rs]
        failed(err) == [next EXCEPT !.done = TRUE, !.error = err, !.response = <<>>]
        at_deadline(rs) == IF e.late
                        THEN IF rs # <<>> THEN broke(rs) ELSE failed("Timeout")
                        ELSE [next EXCEPT !.response = rs]
    IN CASE e.read \in Delimiters ->
               IF resp # <<>> THEN broke(resp) ELSE next
         [] e.read = "Ok(0)" ->
               IF resp # <<>> THEN broke(resp) ELSE at_deadline(resp)
         [] e.read = "WouldBlock" -> at_deadline(resp)
         [] e.read = "TimedOut" ->
               IF resp # <<>> THEN broke(resp) ELSE at_deadline(resp)
         [] e.read = "Other" ->
               IF resp # <<>> THEN broke(resp) ELSE failed("Io")
         [] OTHER -> at_deadline(Append(resp, e.read))

\* One iteration of `loop` on the outcome e of its read, from the loop state st.
loop_iteration(st, e) ==
    LET resp == st.response
        next == [st EXCEPT !.reads = st.reads + 1]
        broke(rs) == [next EXCEPT !.done = TRUE, !.response = rs]
        failed(err) == [next EXCEPT !.done = TRUE, !.error = err, !.response = <<>>]
        at_deadline(rs) == IF e.late
                        THEN IF rs # <<>> THEN broke(rs) ELSE failed("Timeout")
                        ELSE [next EXCEPT !.response = rs]
    IN CASE e.read \in Delimiters ->
               IF resp # <<>> THEN broke(resp) ELSE next
         [] e.read = "Ok(0)" ->
               IF resp # <<>> THEN broke(resp) ELSE at_deadline(resp)
         [] e.read = "WouldBlock" -> at_deadline(resp)
         [] e.read = "TimedOut" ->
               IF resp # <<>> THEN broke(resp) ELSE at_deadline(resp)
         [] e.read = "Other" ->
               IF resp # <<>> THEN broke(resp) ELSE failed("Io")
         [] OTHER ->
               IF Len(Append(resp, e.read)) >= 64
               THEN broke(Append(resp, e.read))
               ELSE at_deadline(Append(resp, e.read))

RECURSIVE run_loop(_, _, _)
run_loop(events, k, st) ==
    IF st.done \/ k > Len(events) THEN st
    ELSE run_loop(events, k + 1, loop_iteration(st, events[k]))

version_loop(events) ==
    run_loop(events, 1, [done |-> FALSE, error |-> "", response |-> <<>>, reads |-> 0])

\* Variant: a response loop that fails resets the generation flag.
VersionCall_resetting(events) ==
    /\ pc = "ready"
    /\ \E io1 \in IoOutcomes :
         LET w1 == Sent(<<>>, CMD_STOP, io1)
             v1 == Append(Wire(<<>>, CMD_STOP, io1), Slept)   \* `sleep(STOP_DELAY)`
         IN /\ StopEffect(io1)                     \* `let _ = self.stop()`
            /\ \/ /\ written' = w1                 \* `self.flush_input()?`
                  /\ wire' = v1
                  /\ reads' = 1
                  /\ args' = <<>>
                  /\ ret' = Err("Io")
                  /\ response' = <<>>
                  /\ UNCHANGED is_bitalino2
               \/ /\ \E io2 \in IoFailures :       \* `self.send_command(CMD_VERSION)?`
                       /\ written' = Sent(w1, CMD_VERSION, io2)
                       /\ wire' = Wire(v1, CMD_VERSION, io2)
                  /\ reads' = 1
                  /\ args' = <<>>
                  /\ ret' = Err("Io")
                  /\ response' = <<>>
                  /\ UNCHANGED is_bitalino2
               \/ LET out == version_loop(events)
                      version == trim(out.response)
                  IN /\ out.done
                     /\ written' = Append(w1, CMD_VERSION)
                     /\ wire' = Wire(v1, CMD_VERSION, "ok")
                     /\ reads' = 1 + out.reads
                     /\ args' = <<events>>
                     /\ response' = out.response
                     /\ IF out.error # ""
                        THEN /\ ret' = Err(out.error)
                             /\ is_bitalino2' = FALSE
                        ELSE /\ is_bitalino2' = detect_bitalino2(version)
                             /\ ret' = Ok(Some(version))
    /\ op' = "version"
    /\ UNCHANGED connection
    /\ NoReadLocals
    /\ byte_read' = None
    /\ UNCHANGED <<sampling_rate, pc>>

\* version(): stop (result ignored), flush_input, version command, response
\* loop over the read outcomes `events`, trim and generation detection.
VersionCall(events) ==
    /\ pc = "ready"
    /\ \E io1 \in IoOutcomes :
         LET w1 == Sent(<<>>, CMD_STOP, io1)
             v1 == Append(Wire(<<>>, CMD_STOP, io1), Slept)   \* `sleep(STOP_DELAY)`
         IN /\ StopEffect(io1)                     \* `let _ = self.stop()`
            /\ \/ /\ written' = w1                 \* `self.flush_input()?`
                  /\ wire' = v1
                  /\ reads' = 1
                  /\ args' = <<>>
                  /\ ret' = Err("Io")
                  /\ response' = <<>>
                  /\ UNCHANGED is_bitalino2
               \/ /\ \E io2 \in IoFailures :       \* `self.send_command(CMD_VERSION)?`
                       /\ written' = Sent(w1, CMD_VERSION, io2)
                       /\ wire' = Wire(v1, CMD_VERSION, io2)
                  /\ reads' = 1
                  /\ args' = <<>>
                  /\ ret' = Err("Io")
                  /\ response' = <<>>
                  /\ UNCHANGED is_bitalino2
               \/ LET out == version_loop(events)
                      version == trim(out.response)
                  IN /\ out.done
                     /\ written' = Append(w1, CMD_VERSION)
                     /\ wire' = Wire(v1, CMD_VERSION, "ok")
                     /\ reads' = 1 + out.reads
                     /\ args' = <<events>>
                     /\ response' = out.response
                     /\ IF out.error # ""
                        THEN /\ ret' = Err(out.error)
                             /\ UNCHANGED is_bitalino2
                        ELSE /\ is_bitalino2' = detect_bitalino2(version)
                             /\ ret' = Ok(Some(version))
    /\ op' = "version"
    /\ UNCHANGED connection
    /\ NoReadLocals
    /\ byte_read' = None
    /\ UNCHANGED <<sampling_rate, pc>>

Version ==
    /\ pc = "ready"
    /\ \E events \in VersionReads : VersionCall(events)

VersionAny ==
    /\ pc = "ready"
    /\ \E events \in AllVersionReads : VersionCall(events)

Min(a, b) == IF a <= b THEN a ELSE b

SetBatteryThresholdCall(threshold) ==
    /\ pc = "ready"
    /\ IF frame_size > 0
       THEN /\ written' = <<>>
            /\ wire' = <<>>
            /\ ret' = Err("Acquiring")
       ELSE \E io \in IoOutcomes :
              /\ written' = Sent(<<>>, Shl8(Min(threshold, 63), 2), io)
              /\ wire' = Wire(<<>>, Shl8(Min(threshold, 63), 2), io)
              /\ ret' = IF io = "ok" THEN Ok(None) ELSE Err("Io")
    /\ op' = "set_battery_threshold"
    /\ UNCHANGED connection
    /\ args' = <<threshold>>
    /\ reads' = 0
    /\ NoLocals
    /\ UNCHANGED <<session, pc>>

SetBatteryThreshold ==
    /\ pc = "ready"
    /\ \E threshold \in ThresholdInputs : SetBatteryThresholdCall(threshold)

\* outputs.get(k).copied().unwrap_or(0) & 0x01
output_bit(outputs, k) == IF k < Len(outputs) THEN And(outputs[k + 1], 1) ELSE 0

trigger_cmd_2(outputs) ==
    Or(Or(CMD_TRIGGER_2, Shl8(output_bit(outputs, 1), 3)), Shl8(output_bit(outputs, 0), 2))

\* Variant: O3 and O4 change places.
trigger_cmd_1_swapped(outputs) ==
    Or(Or(Or(Or(CMD_TRIGGER_1, Shl8(output_bit(outputs, 2), 5)),
                Shl8(output_bit(outputs, 3), 4)),
             Shl8(output_bit(outputs, 1), 3)),
       Shl8(output_bit(outputs, 0), 2))

trigger_cmd_1(outputs) ==
    Or(Or(Or(Or(CMD_TRIGGER_1, Shl8(output_bit(outputs, 3), 5)),
                Shl8(output_bit(outputs, 2), 4)),
             Shl8(output_bit(outputs, 1), 3)),
       Shl8(output_bit(outputs, 0), 2))

TriggerCall(outputs) ==
    /\ pc = "ready"
    /\ IF is_bitalino2
       THEN \E io \in IoOutcomes :
              /\ written' = Sent(<<>>, trigger_cmd_2(outputs), io)
              /\ wire' = Wire(<<>>, trigger_cmd_2(outputs), io)
              /\ ret' = IF io = "ok" THEN Ok(None) ELSE Err("Io")
       ELSE IF frame_size = 0
       THEN /\ written' = <<>>
            /\ wire' = <<>>
            /\ ret' = Err("NotAcquiring")
       ELSE \E io \in IoOutcomes :
              /\ written' = Sent(<<>>, trigger_cmd_1(outputs), io)
              /\ wire' = Wire(<<>>, trigger_cmd_1(outputs), io)
              /\ ret' = IF io = "ok" THEN Ok(None) ELSE Err("Io")
    /\ op' = "trigger"
    /\ UNCHANGED connection
    /\ args' = <<outputs>>
    /\ reads' = 0
    /\ NoLocals
    /\ UNCHANGED <<session, pc>>

Trigger ==
    /\ pc = "ready"
    /\ \E outputs \in OutputInputs : TriggerCall(outputs)

PwmCall(value) ==
    /\ pc = "ready"
    /\ IF ~is_bitalino2
       THEN /\ written' = <<>>
            /\ wire' = <<>>
            /\ ret' = Err("NotBitalino2")
       ELSE \/ \E io \in IoFailures :
                 /\ written' = Sent(<<>>, CMD_PWM_PREFIX, io)
                 /\ wire' = Wire(<<>>, CMD_PWM_PREFIX, io)
                 /\ ret' = Err("Io")
            \/ \E io \in IoOutcomes :
                 /\ written' = Sent(<<CMD_PWM_PREFIX>>, value, io)
                 /\ wire' = Wire(Wire(<<>>, CMD_PWM_PREFIX, "ok"), value, io)
                 /\ ret' = IF io = "ok" THEN Ok(None) ELSE Err("Io")
    /\ op' = "pwm"
    /\ UNCHANGED connection
    /\ args' = <<value>>
    /\ reads' = 0
    /\ NoLocals
    /\ UNCHANGED <<session, pc>>

Pwm ==
    /\ pc = "ready"
    /\ \E value \in PwmInputs : PwmCall(value)

\* Variant: the checksum nibble of the last byte is not cleared first.
state_crc_uncleared(data) ==
    LET RECURSIVE go(_, _)
        go(x, k) == IF x >= 0 /\ k <= 16 THEN go(crc_byte(x, data[k]), k + 1) ELSE x
    IN And(go(0, 1), 15)

\* The CRC computed inline by state() over its 16-byte response.
state_crc(data) ==
    LET data_for_crc == [data EXCEPT ![16] = And(data[16], 240)]
        RECURSIVE go(_, _)
        go(x, k) == IF x >= 0 /\ k <= 16 THEN go(crc_byte(x, data_for_crc[k]), k + 1) ELSE x
    IN And(go(0, 1), 15)

decode_state(data) ==
    LET D(k) == data[k + 1]     \* Rust data[k]
        pair(hi, lo) == Or(D(hi) * 256, D(lo))
    IN [analog |-> <<pair(1, 0), pair(3, 2), pair(5, 4), pair(7, 6), pair(9, 8), pair(11, 10)>>,
        battery |-> pair(13, 12),
        battery_threshold |-> D(14),
        digital |-> <<Bit(D(15), 7), Bit(D(15), 6), Bit(D(15), 5), Bit(D(15), 4)>>,
        crc_warning |-> And(D(15), 15) # state_crc(data)]

\* 16-byte answers to the state command: the device's CRC-4 in the low
\* nibble of the last byte, possibly corrupted (or not computed by the firmware).
StateResponses ==
    { [body EXCEPT ![16] = And(body[16], 240) + Xor(state_crc(body), mask)] :
          body \in StateBodies, mask \in NibbleMasks }

\* Variant: the acquisition check is missing.
state_refused_generation_only ==
    IF ~is_bitalino2 THEN "NotBitalino2" ELSE ""

\* The two checks at the entry of state(): the error they bail with, "" if none.
state_refused ==
    IF ~is_bitalino2 THEN "NotBitalino2"
    ELSE IF frame_size > 0 THEN "Acquiring"
    ELSE ""

\* Variant: a CRC mismatch is returned as an error.
state_result_crc_fatal(data) ==
    IF decode_state(data).crc_warning THEN Err("Crc") ELSE Ok(Some(decode_state(data)))

\* What state() returns once the response was read and the input flushed:
\* the CRC mismatch is logged, the decoded state is returned.
state_result(data) == Ok(Some(decode_state(data)))

State ==
    /\ pc = "ready"
    /\ IF state_refused # ""
       THEN /\ written' = <<>>
            /\ wire' = <<>>
            /\ reads' = 0
            /\ args' = <<>>
            /\ ret' = Err(state_refused)
       ELSE \/ /\ written' = <<>>                  \* `self.flush_input()?`
               /\ wire' = <<>>
               /\ reads' = 1
               /\ args' = <<>>
               /\ ret' = Err("Io")
            \/ /\ \E io \in IoFailures :           \* `self.send_command(CMD_STATE)?`
                    /\ written' = Sent(<<>>, CMD_STATE, io)
                    /\ wire' = Wire(<<>>, CMD_STATE, io)
               /\ reads' = 1
               /\ args' = <<>>
               /\ ret' = Err("Io")
            \/ /\ written' = <<CMD_STATE>>         \* `read_exact(&mut data)?`
               /\ wire' = Wire(<<>>, CMD_STATE, "ok")
               /\ reads' = 2
               /\ args' = <<>>
               /\ ret' = Err("Io")
            \/ /\ written' = <<CMD_STATE>>         \* second `self.flush_input()?`
               /\ wire' = Wire(<<>>, CMD_STATE, "ok")
               /\ reads' = 3
               /\ \E data \in StateResponses : args' = <<data>>
               /\ ret' = Err("Io")
            \/ /\ written' = <<CMD_STATE>>
               /\ wire' = Wire(<<>>, CMD_STATE, "ok")
               /\ reads' = 3
               /\ \E data \in StateResponses :
                    /\ args' = <<data>>
                    /\ ret' = state_result(data)
    /\ op' = "state"
    /\ UNCHANGED connection
    /\ NoLocals
    /\ UNCHANGED <<session, pc>>

(***************************************************************************)
(* Raw frames the device can deliver for a frame of fs bytes: a fixed      *)
(* payload, a sequence number in the upper nibble of the last byte and a   *)
(* checksum nibble that is the device's CRC-4, possibly corrupted on the   *)
(* link.                                                                   *)
(***************************************************************************)
Payload(fs) == [k \in 1..(fs - 1) |-> (165 + 59 * k) % 256]

DeviceFrame(fs, seq, mask) ==
    LET body == Payload(fs) \o <<seq * 16>>
    IN Payload(fs) \o <<seq * 16 + Xor(And(crc_of(body), 15), mask)>>

FramesOver(fs, seqs, masks) == {DeviceFrame(fs, seq, mask) : seq \in seqs, mask \in masks}
RawFrames(fs) == FramesOver(fs, SeqInputs, NibbleMasks)

elapsed_us == IF IsSome(start_time) THEN Some(Unwrap(start_time)) ELSE None

\* Variant: a gap of exactly 8 is counted too.
gap_increment_incl8(last, seq) ==
    IF IsSome(last)
    THEN LET expected == And(Unwrap(last) + 1, 15)
         IN IF seq # expected
            THEN LET gap == (seq - expected + 16) % 16
                 IN IF gap > 0 /\ gap <= 8 THEN gap ELSE 0
            ELSE 0
    ELSE 0

\* Number of frames the sequence check of read_frames_timed adds to sequence_gaps
\* when a CRC-valid frame with sequence number seq follows last_seq = last.
gap_increment(last, seq) ==
    IF IsSome(last)
    THEN LET expected == And(Unwrap(last) + 1, 15)
         IN IF seq # expected
            THEN LET gap == (seq - expected + 16) % 16
                 IN IF gap > 0 /\ gap < 8 THEN gap ELSE 0
            ELSE 0
    ELSE 0

\* Variant: the "acquisition not started" check is missing.
not_started_unchecked == FALSE

\* `if self.frame_size == 0` at the entry of read_frames_timed.
not_started == frame_size = 0

\* Variant: every batch starts without a last-seen sequence number.
ReadFramesTimedCall_fresh(n) ==
    /\ pc = "ready"
    /\ IF not_started THEN
           /\ ret' = Err("NotStarted")
           /\ NoLocals
           /\ UNCHANGED pc
       ELSE
           /\ n_frames' = n
           /\ i' = 0
           /\ timestamp_us' = IF IsSome(elapsed_us) THEN Unwrap(elapsed_us) ELSE 0
           /\ frames' = <<>>
           /\ buffer' = [k \in 1..frame_size |-> 0]
           /\ crc_errors' = 0
           /\ sequence_gaps' = 0
           /\ response' = <<>>
           /\ byte_read' = None
           /\ pc' = "read_frames_timed"
           /\ ret' = Pending
    /\ op' = "read_frames_timed"
    /\ UNCHANGED connection
    /\ args' = <<n>>
    /\ written' = <<>>
    /\ wire' = <<>>
    /\ reads' = 0
    /\ last_seq' = None
    /\ UNCHANGED <<active_channels, frame_size, sampling_rate, start_time, is_bitalino2>>

\* Entry of read_frames_timed(n) up to the first blocking read.
ReadFramesTimedCall(n) ==
    /\ pc = "ready"
    /\ IF not_started THEN
           /\ ret' = Err("NotStarted")
           /\ NoLocals
           /\ UNCHANGED pc
       ELSE
           /\ n_frames' = n
           /\ i' = 0
           /\ timestamp_us' = IF IsSome(elapsed_us) THEN Unwrap(elapsed_us) ELSE 0
           /\ frames' = <<>>
           /\ buffer' = [k \in 1..frame_size |-> 0]
           /\ crc_errors' = 0
           /\ sequence_gaps' = 0
           /\ response' = <<>>
           /\ byte_read' = None
           /\ pc' = "read_frames_timed"
           /\ ret' = Pending
    /\ op' = "read_frames_timed"
    /\ UNCHANGED connection
    /\ args' = <<n>>
    /\ written' = <<>>
    /\ wire' = <<>>
    /\ reads' = 0
    /\ UNCHANGED session

ReadFramesTimed ==
    /\ pc = "ready"
    /\ \E n \in 0..MaxFrames : ReadFramesTimedCall(n)

\* Variant: last_seq is only updated when the gap was not an ignored one.
FrameAccepted_skip_far(frame) ==
    /\ sequence_gaps' = sequence_gaps + gap_increment(last_seq, frame.seq)
    /\ last_seq' = IF IsSome(last_seq)
                      /\ (frame.seq - And(Unwrap(last_seq) + 1, 15) + 16) % 16 >= 8
                   THEN last_seq ELSE Some(frame.seq)
    /\ frames' = Append(frames, frame)
    /\ UNCHANGED <<crc_errors, pc, ret>>

\* The branch of the loop body for a frame whose CRC verified.
FrameAccepted(frame) ==
    /\ sequence_gaps' = sequence_gaps + gap_increment(last_seq, frame.seq)
    /\ last_seq' = Some(frame.seq)
    /\ frames' = Append(frames, frame)
    /\ UNCHANGED <<crc_errors, pc, ret>>

\* Variant: a CRC mismatch aborts the batch with an error.
CrcMismatch_fatal ==
    /\ crc_errors' = crc_errors + 1
    /\ pc' = "ready"
    /\ ret' = Err("Crc")
    /\ UNCHANGED <<last_seq, frames, sequence_gaps>>

\* The branch of the loop body for a frame whose CRC did not verify.
CrcMismatch ==
    /\ crc_errors' = crc_errors + 1
    /\ UNCHANGED <<last_seq, frames, sequence_gaps, pc, ret>>

\* Variant: the timestamp is taken again at every frame.
ReadFrameWith_restamped(raw) ==
    /\ pc = "read_frames_timed"
    /\ i < n_frames
    /\ buffer' = raw
    /\ IF verify_crc(raw)
       THEN FrameAccepted(decode_frame(raw, Len(active_channels)))
       ELSE CrcMismatch
    /\ i' = i + 1
    /\ reads' = reads + 1
    /\ timestamp_us' = IF IsSome(elapsed_us) THEN Unwrap(elapsed_us) ELSE 0
    /\ UNCHANGED <<active_channels, frame_size, sampling_rate, start_time, is_bitalino2,
                   op, args, written, wire, connection, n_frames, response, byte_read>>

\* One iteration of `for _ in 0..n_frames` in which read_exact delivered raw.
ReadFrameWith(raw) ==
    /\ pc = "read_frames_timed"
    /\ i < n_frames
    /\ buffer' = raw
    /\ IF verify_crc(raw)
       THEN FrameAccepted(decode_frame(raw, Len(active_channels)))
       ELSE CrcMismatch
    /\ i' = i + 1
    /\ reads' = reads + 1
    /\ UNCHANGED <<active_channels, frame_size, sampling_rate, start_time, is_bitalino2,
                   op, args, written, wire, connection, n_frames, timestamp_us,
                   response, byte_read>>

\* Variant: a failed read also ends the acquisition.
ReadFrameErr_stopping ==
    /\ pc = "read_frames_timed"
    /\ i < n_frames
    /\ pc' = "ready"
    /\ ret' = Err("Io")
    /\ reads' = reads + 1
    /\ NoLocals
    /\ ClearAcquisition
    /\ UNCHANGED <<sampling_rate, is_bitalino2, op, args, written, wire, connection>>

\* Variant: a failed read ends the batch early and returns what was decoded.
ReadFrameErr_partial ==
    /\ pc = "read_frames_timed"
    /\ i < n_frames
    /\ pc' = "ready"
    /\ ret' = Ok(None)
    /\ reads' = reads + 1
    /\ NoLocals
    /\ UNCHANGED <<session, op, args, written, wire, connection>>

\* One iteration in which read_exact failed: `?` returns the error (the locals,
\* including the partly filled buffer, are dropped).
ReadFrameErr ==
    /\ pc = "read_frames_timed"
    /\ i < n_frames
    /\ pc' = "ready"
    /\ ret' = Err("Io")
    /\ reads' = reads + 1
    /\ NoLocals
    /\ UNCHANGED <<session, op, args, written, wire, connection>>

ReadFrame ==
    /\ pc = "read_frames_timed"
    /\ i < n_frames
    /\ \/ \E raw \in RawFrames(frame_size) : ReadFrameWith(raw)
       \/ ReadFrameErr

\* The loop is over: `Ok(FrameBatch { frames, timestamp_us, crc_errors, sequence_gaps })`.
\* The batch moves to the caller and the locals are gone.
ReadReturn ==
    /\ pc = "read_frames_timed"
    /\ i = n_frames
    /\ pc' = "ready"
    /\ ret' = Ok(None)
    /\ NoLocals
    /\ UNCHANGED <<session, op, args, written, wire, connection, reads>>

Next ==
    \/ Tick
    \/ Version
    \/ Start
    \/ Stop
    \/ SetBatteryThreshold
    \/ State
    \/ Trigger
    \/ Pwm
    \/ ReadFramesTimed
    \/ ReadFrame
    \/ ReadReturn

Spec == Init /\ [][Next]_vars

(***************************************************************************)
(* start and stop alone, over every sampling rate and a larger choice of   *)
(* channel lists.                                                          *)
(***************************************************************************)
NextStart ==
    \/ StartAny
    \/ Stop

SpecStart == Init /\ [][NextStart]_vars

(***************************************************************************)
(* Batch reads over all sixteen sequence numbers, from the state that      *)
(* start(1000, [0]) leaves behind on a new session.                        *)
(***************************************************************************)
InitSeq ==
    /\ active_channels = <<0>>
    /\ frame_size = 3
    /\ sampling_rate = 1000
    /\ start_time = Some(0)
    /\ last_seq = None
    /\ is_bitalino2 = FALSE
    /\ pc = "ready"
    /\ op = "start"
    /\ args = <<1000, <<0>>>>
    /\ ret = Ok(Some(1000))
    /\ written = <<0, 195, 5>>
    /\ wire = <<Written(0), Flushed, Slept, Slept, Written(195), Flushed, Slept,
                Written(5), Flushed, Slept>>
    /\ reads = 0
    /\ n_frames = 0
    /\ i = 0
    /\ buffer = <<>>
    /\ frames = <<>>
    /\ crc_errors = 0
    /\ sequence_gaps = 0
    /\ timestamp_us = 0
    /\ response = <<>>
    /\ byte_read = None
    /\ Connected

ReadFramesTimedSeq ==
    /\ pc = "ready"
    /\ \E n \in 0..MaxSeqFrames : ReadFramesTimedCall(n)

ReadFrameSeq ==
    /\ pc = "read_frames_timed"
    /\ i < n_frames
    /\ \/ \E raw \in FramesOver(frame_size, AllSeqs, NibbleMasks) : ReadFrameWith(raw)
       \/ ReadFrameErr

NextSeq ==
    \/ ReadFramesTimedSeq
    \/ ReadFrameSeq
    \/ ReadReturn

SpecSeq == InitSeq /\ [][NextSeq]_vars

(***************************************************************************)
(* Batch reads under every number of active channels: a new session on     *)
(* which start(1000, channels) and read_frames_timed are called.           *)
(***************************************************************************)
StartChannels ==
    /\ pc = "ready"
    /\ \E channels \in CodecChannels \ {<<>>} : StartCall(1000, channels)

NextFrames ==
    \/ StartChannels
    \/ ReadFramesTimedSeq
    \/ ReadFrame
    \/ ReadReturn

SpecFrames == Init /\ [][NextFrames]_vars

(***************************************************************************)
(* version() alone, over a larger choice of version strings and of read    *)
(* outcomes of its response loop.                                          *)
(***************************************************************************)
NextVersion == VersionAny

SpecVersion == Init /\ [][NextVersion]_vars

(***************************************************************************)
(* version() step by step: each pass of its response loop is a read that   *)
(* returns and the match on what it returned, while the clock advances.    *)
(* The clock counts seconds from the instant `deadline` was computed.       *)
(***************************************************************************)
VERSION_TIMEOUT == 2

LiveReads == {"A", "\n", "\r", "NUL", "Ok(0)", "WouldBlock", "TimedOut", "Other"}

linkage == <<max_retries, retry_delay, scan_timeout, bluez, cpc, attempt, last_error,
             connected, fds, slept, opens, verifies, event, device>>

\* version() up to the first pass of `loop`.
VersionEnter ==
    /\ pc = "ready"
    /\ \E io1 \in IoOutcomes :
         LET w1 == Sent(<<>>, CMD_STOP, io1)
             v1 == Append(Wire(<<>>, CMD_STOP, io1), Slept)   \* `sleep(STOP_DELAY)`
         IN /\ StopEffect(io1)                     \* `let _ = self.stop()`
            /\ \/ /\ written' = w1                 \* `self.flush_input()?`
                  /\ wire' = v1
                  /\ ret' = Err("Io")
                  /\ UNCHANGED <<pc, now, deadline>>
               \/ /\ \E io2 \in IoFailures :       \* `self.send_command(CMD_VERSION)?`
                       /\ written' = Sent(w1, CMD_VERSION, io2)
                       /\ wire' = Wire(v1, CMD_VERSION, io2)
                  /\ ret' = Err("Io")
                  /\ UNCHANGED <<pc, now, deadline>>
               \/ /\ written' = Append(w1, CMD_VERSION)
                  /\ wire' = Wire(v1, CMD_VERSION, "ok")
                  /\ ret' = Pending
                  /\ now' = 0
                  /\ deadline' = VERSION_TIMEOUT   \* `Instant::now() + VERSION_TIMEOUT`
                  /\ pc' = "version"
    /\ op' = "version"
    /\ args' = <<>>
    /\ reads' = 1
    /\ NoLocals
    /\ UNCHANGED <<sampling_rate, is_bitalino2, linkage>>

\* `self.transport.read(&mut byte)` returns.
TransportRead ==
    /\ pc = "version"
    /\ byte_read = None
    /\ \E r \in LiveReads : byte_read' = Some(r)
    /\ UNCHANGED <<session, pc, op, args, ret, written, reads, wire, connection,
                   n_frames, i, buffer, frames, crc_errors, sequence_gaps, timestamp_us,
                   response>>

\* The match on the read's result and the deadline test of one pass; when the
\* loop is left, the rest of version().  `reads` counts up to MaxVersionReads.
VersionIteration ==
    /\ pc = "version"
    /\ byte_read # None
    /\ LET out == loop_iteration([done |-> FALSE, error |-> "", response |-> response,
                                  reads |-> reads],
                                 Read(Unwrap(byte_read), now > deadline))
           version == trim(out.response)
       IN /\ reads' = Min(out.reads, MaxVersionReads)
          /\ response' = out.response
          /\ IF ~out.done
             THEN UNCHANGED <<pc, ret, is_bitalino2>>
             ELSE /\ pc' = "ready"
                  /\ IF out.error # ""
                     THEN /\ ret' = Err(out.error)
                          /\ UNCHANGED is_bitalino2
                     ELSE /\ is_bitalino2' = detect_bitalino2(version)
                          /\ ret' = Ok(Some(version))
    /\ byte_read' = None
    /\ UNCHANGED <<active_channels, frame_size, sampling_rate, start_time, last_seq,
                   op, args, written, wire, connection,
                   n_frames, i, buffer, frames, crc_errors, sequence_gaps, timestamp_us>>

\* Time passes while version() is in its loop.
VersionClock ==
    /\ pc = "version"
    /\ now <= deadline
    /\ now' = now + 1
    /\ UNCHANGED <<driver, deadline, linkage>>

NextVersionLive ==
    \/ VersionEnter
    \/ TransportRead
    \/ VersionIteration
    \/ VersionClock

SpecVersionLive ==
    /\ Init
    /\ [][NextVersionLive]_vars
    /\ WF_vars(TransportRead)
    /\ WF_vars(VersionIteration)
    /\ WF_vars(VersionClock)

(***************************************************************************)
(* The frame codec on its own: a session holding one of the channel lists  *)
(* a start can store (none when Idle), with the frame size start computed  *)
(* for it, and a raw buffer to which verify_crc and decode_frame are       *)
(* applied once each.  The buffer of an acquiring session has its frame    *)
(* size, as read_exact fills it; verify_crc is applied to buffers of every *)
(* length on the session without channels, and the checksum computation   *)
(* of state() to those of the length of a state response.                  *)
(***************************************************************************)
InitCodec ==
    /\ active_channels \in CodecChannels
    /\ frame_size = calculate_frame_size(Len(active_channels))
    /\ sampling_rate = 1000
    /\ start_time = IF active_channels = <<>> THEN None ELSE Some(0)
    /\ last_seq = None
    /\ is_bitalino2 = FALSE
    /\ pc = "ready"
    /\ op = "calculate_frame_size"
    /\ args = <<>>
    /\ ret = Ok(Some(frame_size))
    /\ written = <<>>
    /\ reads = 0
    /\ n_frames = 0
    /\ i = 0
    /\ \/ \E len \in 0..MaxCrcLen :
            /\ active_channels # <<>> => len = frame_size
            /\ buffer \in CodecBuffers(len)
       \/ /\ active_channels = <<>>
          /\ buffer \in CodecStateBuffers
    /\ frames = <<>>
    /\ crc_errors = 0
    /\ sequence_gaps = 0
    /\ timestamp_us = 0
    /\ response = <<>>
    /\ byte_read = None
    /\ wire = <<>>
    /\ Connected

VerifyCrc ==
    /\ op = "calculate_frame_size"
    /\ op' = "verify_crc"
    /\ ret' = Ok(Some(verify_crc(buffer)))
    /\ UNCHANGED <<session, pc, args, written, wire, connection, reads, locals>>

DecodeFrame ==
    /\ op = "calculate_frame_size"
    /\ frame_size > 0
    /\ Len(buffer) = frame_size
    /\ op' = "decode_frame"
    /\ frames' = <<decode_frame(buffer, Len(active_channels))>>
    /\ ret' = Ok(None)
    /\ UNCHANGED <<session, pc, args, written, wire, connection, reads,
                   n_frames, i, buffer, crc_errors, sequence_gaps, timestamp_us, response, byte_read>>

\* The checksum state() computes over the 16 bytes it read.
StateCrc ==
    /\ op = "calculate_frame_size"
    /\ active_channels = <<>>
    /\ buffer \in CodecStateBuffers
    /\ op' = "state"
    /\ ret' = Ok(Some(state_crc(buffer)))
    /\ UNCHANGED <<session, pc, args, written, wire, connection, reads, locals>>

NextCodec ==
    \/ VerifyCrc
    \/ DecodeFrame
    \/ StateCrc

SpecCodec == InitCodec /\ [][NextCodec]_vars

(***************************************************************************)
(* The sampling-rate parser and the protocol code of the parsed rate, over *)
(* every 16-bit value.                                                     *)
(***************************************************************************)
InitRate ==
    /\ active_channels = <<>>
    /\ frame_size = 0
    /\ sampling_rate = 1000
    /\ start_time = None
    /\ last_seq = None
    /\ is_bitalino2 = FALSE
    /\ pc = "ready"
    /\ op = "from_rfcomm"
    /\ args \in {<<value>> : value \in RateValues}
    /\ ret = [status |-> "None", error |-> "", value |-> None]
    /\ written = <<>>
    /\ reads = 0
    /\ n_frames = 0
    /\ i = 0
    /\ buffer = <<>>
    /\ frames = <<>>
    /\ crc_errors = 0
    /\ sequence_gaps = 0
    /\ timestamp_us = 0
    /\ response = <<>>
    /\ byte_read = None
    /\ wire = <<>>
    /\ Connected

FromU16Checked ==
    /\ op = "from_rfcomm"
    /\ op' = "from_u16_checked"
    /\ LET parsed == from_u16_checked(args[1])
       IN ret' = IF parsed.ok THEN Ok(Some(parsed.rate)) ELSE Err("InvalidRate")
    /\ UNCHANGED <<session, pc, args, written, wire, connection, reads, locals>>

ToBits ==
    /\ op = "from_u16_checked"
    /\ ret.status = "Ok"
    /\ op' = "to_bits"
    /\ ret' = Ok(Some(to_bits(Unwrap(ret.value))))
    /\ UNCHANGED <<session, pc, args, written, wire, connection, reads, locals>>

NextRate ==
    \/ FromU16Checked
    \/ ToBits

SpecRate == InitRate /\ [][NextRate]_vars

(***************************************************************************)
(* BluetoothConnector::pair_and_connect (src/src/bluetooth.rs): the setup  *)
(* of the pairing-capable build with its scan, the retry loop, the steps   *)
(* of open_rfcomm_raw / open_rfcomm and verify_connected.  Every system    *)
(* call and every BlueZ request may succeed or fail.                       *)
(***************************************************************************)
\* A DriverError, with the place it was observed at.
Failure(kind, text) == [kind |-> kind, text |-> text, at |-> <<attempt, cpc>>]

RawSteps == <<"socket", "cloexec", "connect", "rcvtimeo", "sndtimeo">>
BluezSteps == <<"stream_connect", "dup", "cloexec", "getfl", "setfl", "rcvtimeo", "sndtimeo">>
OpenSteps == IF bluez THEN BluezSteps ELSE RawSteps
StepIndex(step) == CHOOSE k \in 1..Len(OpenSteps) : OpenSteps[k] = step

\* The descriptors a successful step creates.
opened_by(step) ==
    IF bluez
    THEN CASE step = "stream_connect" -> {"stream"}
           [] step = "dup" -> {"fd"}
           [] OTHER -> {}
    ELSE IF step = "socket" THEN {"fd"} ELSE {}

\* Variant: a failed connect leaves its socket open.
closed_on_failure_but_connect(step) ==
    IF bluez
    THEN CASE step = "stream_connect" -> {}
           [] step = "dup" -> {"stream"}
           [] OTHER -> {"fd", "stream"}
    ELSE IF step \in {"socket", "connect"} THEN {} ELSE {"fd"}

\* The descriptors gone when a step fails: `libc::close(fd)` before the
\* return, and the bluer Stream dropped by the return.
closed_on_failure(step) ==
    IF bluez
    THEN CASE step = "stream_connect" -> {}
           [] step = "dup" -> {"stream"}
           [] OTHER -> {"fd", "stream"}
    ELSE IF step = "socket" THEN {} ELSE {"fd"}

\* The error kinds a failing step returns.
step_errors(step) ==
    IF step = "stream_connect" THEN {"Timeout", "Connection"} ELSE {"Connection"}

\* Variant: the exponent is not capped.
backoff_uncapped(k) == retry_delay * (2 ^ (k - 1))

\* `self.retry_delay * (1 << (attempt - 1).min(3))`
backoff(k) == retry_delay * (2 ^ Min(k - 1, 3))

InitConnect ==
    /\ NewSession
    /\ max_retries \in 0..MaxRetries
    /\ retry_delay \in RetryDelayInputs
    /\ bluez \in BOOLEAN
    /\ scan_timeout \in IF bluez THEN ScanTimeouts ELSE {0}
    /\ cpc = "call"
    /\ attempt = 0
    /\ last_error = None
    /\ connected = Pending
    /\ fds = {}
    /\ slept = <<>>
    /\ opens = 0
    /\ verifies = 0
    /\ now = 0
    /\ deadline = 0
    /\ event = None
    /\ device = None

Returned(result) ==
    /\ connected' = result
    /\ cpc' = "returned"

\* Variant: the first error is kept.
AttemptFailed_keep_first(e) ==
    /\ last_error' = IF IsSome(last_error) THEN last_error ELSE Some(e)
    /\ attempt' = attempt + 1
    /\ cpc' = "loop"

\* `last_error = Some(e)` and the next iteration of the loop.
AttemptFailed(e) ==
    /\ last_error' = Some(e)
    /\ attempt' = attempt + 1
    /\ cpc' = "loop"

\* pair_and_connect up to the retry loop (manual build: parse_bdaddr) or up to
\* the scan (pairing-capable build: runtime, session, adapter, agent, address,
\* discover_devices and the deadline of wait_for_device).
PairAndConnect ==
    /\ cpc = "call"
    /\ \/ /\ Returned(Err(Failure("Connection", "invalid mac")))
          /\ UNCHANGED deadline
       \/ /\ bluez
          /\ \E kind \in {"Command", "Pairing"} : Returned(Err(Failure(kind, "")))
          /\ UNCHANGED deadline
       \/ /\ cpc' = IF bluez THEN "scan" ELSE "loop"
          /\ deadline' = IF bluez THEN now + scan_timeout ELSE deadline
          /\ UNCHANGED connected
    /\ UNCHANGED <<configuration, attempt, last_error, fds, slept, opens, verifies, now, event,
                   device, driver>>

\* The clock advances while wait_for_device waits.
ClockTick ==
    /\ cpc = "scan"
    /\ now < MaxScanTime
    /\ now' = now + 1
    /\ UNCHANGED <<configuration, cpc, attempt, last_error, connected, fds, slept, opens,
                   verifies, deadline, event, device, driver>>

\* The adapter puts an item in the discovery stream.
Discovery ==
    /\ cpc = "scan"
    /\ event = None
    /\ \E e \in DiscoveryEvents : event' = Some(e)
    /\ UNCHANGED <<configuration, cpc, attempt, last_error, connected, fds, slept, opens,
                   verifies, now, deadline, device, driver>>

\* `Instant::now() > deadline`
scan_expired == now > deadline

\* wait_for_device: one iteration of `while let Some(evt) = events.next().await`,
\* or the end of the stream.
WaitForDevice ==
    /\ cpc = "scan"
    /\ IsSome(event)
    /\ event' = None
    /\ CASE Unwrap(event) = "target" ->
                /\ cpc' = "pair"
                /\ UNCHANGED connected
         [] Unwrap(event) = "other" ->
                IF scan_expired
                THEN Returned(Err(Failure("NotFound", "mac")))
                ELSE UNCHANGED <<cpc, connected>>
         [] Unwrap(event) = "end" ->
                Returned(Err(Failure("NotFound", "mac")))
    /\ deadline' = IF cpc' = "scan" THEN deadline ELSE 0
    /\ UNCHANGED <<configuration, attempt, last_error, fds, slept, opens, verifies, now,
                   device, driver>>

\* Variant: a failed or timed-out pairing is not returned.
Pair_unchecked ==
    /\ cpc = "pair"
    /\ \/ /\ Returned(Err(Failure("Connection", "")))
          /\ UNCHANGED device
       \/ /\ \E paired \in BOOLEAN : device' = Some([paired |-> paired, trusted |-> FALSE])
          /\ cpc' = "trust"
          /\ UNCHANGED connected
    /\ UNCHANGED <<configuration, attempt, last_error, fds, slept, opens, verifies, now,
                   deadline, event, driver>>

\* adapter.device, is_paired and, if the device is not paired, pair under
\* pair_timeout.
Pair ==
    /\ cpc = "pair"
    /\ \/ /\ Returned(Err(Failure("Connection", "")))         \* adapter.device(address)
          /\ UNCHANGED device
       \/ /\ device' = Some([paired |-> TRUE, trusted |-> FALSE])  \* paired already, or by pair()
          /\ cpc' = "trust"
          /\ UNCHANGED connected
       \/ /\ device' = Some([paired |-> FALSE, trusted |-> FALSE])
          /\ \E kind \in {"Pairing", "Timeout"} : Returned(Err(Failure(kind, "")))
    /\ UNCHANGED <<configuration, attempt, last_error, fds, slept, opens, verifies, now,
                   deadline, event, driver>>

\* `let _ = device.set_trusted(true).await`, then `drop(agent_handle)`.
SetTrusted ==
    /\ cpc = "trust"
    /\ \E ok \in BOOLEAN : device' = Some([Unwrap(device) EXCEPT !.trusted = ok])
    /\ cpc' = "loop"
    /\ UNCHANGED <<configuration, attempt, last_error, connected, fds, slept, opens, verifies,
                   now, deadline, event, driver>>

\* Variant: one attempt more than max_retries.
loop_continues_inclusive == attempt <= max_retries

\* `for attempt in 0..self.max_retries`
loop_continues == attempt < max_retries

\* Head of `for attempt in 0..self.max_retries`: the backoff sleep and the
\* call of open_rfcomm / open_rfcomm_raw, or the end of the loop.
NextAttempt ==
    /\ cpc = "loop"
    /\ IF loop_continues
       THEN /\ slept' = IF attempt > 0 THEN Append(slept, backoff(attempt)) ELSE slept
            /\ opens' = opens + 1
            /\ cpc' = OpenSteps[1]
            /\ UNCHANGED connected
       ELSE /\ Returned(IF IsSome(last_error)
                        THEN Err(Unwrap(last_error))
                        ELSE Err(Failure("NotConnected", "max retries exceeded")))
            /\ UNCHANGED <<slept, opens>>
    /\ UNCHANGED <<configuration, attempt, last_error, fds, verifies, now, deadline, event,
                   device, driver>>

\* A step of open_rfcomm / open_rfcomm_raw succeeds; after the last one the
\* function returns the RfcommStream and its local bluer Stream is dropped.
OpenStepOk ==
    /\ cpc \in {OpenSteps[k] : k \in 1..Len(OpenSteps)}
    /\ LET last == StepIndex(cpc) = Len(OpenSteps)
           created == {<<attempt, kind>> : kind \in opened_by(cpc)}
       IN /\ fds' = IF last THEN (fds \cup created) \ {<<attempt, "stream">>}
                    ELSE fds \cup created
          /\ cpc' = IF last THEN "verify" ELSE OpenSteps[StepIndex(cpc) + 1]
    /\ UNCHANGED <<configuration, attempt, last_error, connected, slept, opens, verifies, now,
                   deadline, event, device, driver>>

\* A step of open_rfcomm / open_rfcomm_raw fails: the function returns the error.
OpenStepFailed ==
    /\ cpc \in {OpenSteps[k] : k \in 1..Len(OpenSteps)}
    /\ fds' = {d \in fds : ~(d[1] = attempt /\ d[2] \in closed_on_failure(cpc))}
    /\ \E kind \in step_errors(cpc) : AttemptFailed(Failure(kind, cpc))
    /\ UNCHANGED <<configuration, connected, slept, opens, verifies, now, deadline, event,
                   device, driver>>

\* stream.verify_connected() and what the loop does with its result:
\* `continue` drops the stream, `return Ok(stream)` moves it to the caller.
VerifyConnected ==
    /\ cpc = "verify"
    /\ verifies' = verifies + 1
    /\ \/ /\ Returned(Ok(Some(<<attempt, "fd">>)))
          /\ UNCHANGED <<attempt, last_error, fds>>
       \/ /\ \E kind \in {"Io", "NotConnected"} : AttemptFailed(Failure(kind, "verify"))
          /\ fds' = fds \ {<<attempt, "fd">>}
          /\ UNCHANGED connected
    /\ UNCHANGED <<configuration, slept, opens, now, deadline, event, device, driver>>

ConnectorStep ==
    \/ PairAndConnect
    \/ WaitForDevice
    \/ Pair
    \/ SetTrusted
    \/ NextAttempt
    \/ OpenStepOk
    \/ OpenStepFailed
    \/ VerifyConnected

NextConnect ==
    \/ PairAndConnect
    \/ ClockTick
    \/ Discovery
    \/ WaitForDevice
    \/ Pair
    \/ SetTrusted
    \/ NextAttempt
    \/ OpenStepOk
    \/ OpenStepFailed
    \/ VerifyConnected

SpecConnect == InitConnect /\ [][NextConnect]_vars

\* The connector is a sequential program that runs to its end; the clock
\* advances; nothing obliges the adapter to report anything.
SpecConnectLive ==
    /\ InitConnect
    /\ [][NextConnect]_vars
    /\ WF_vars(ConnectorStep)
    /\ WF_vars(ClockTick)

(***************************************************************************)
(* Reference notions used by the properties.                               *)
(***************************************************************************)
ValidRates == {1, 10, 100, 1000}
FrameSizeTable == <<3, 4, 6, 7, 8, 8>>
RangeOf(q) == {q[k] : k \in 1..Len(q)}
StrictlyAscending(q) == \A k \in 1..(Len(q) - 1) : q[k] < q[k + 1]
ChannelsIn(channels) == {ch \in RangeOf(channels) : ch \in 0..5}

Idle ==
    /\ active_channels = <<>>
    /\ frame_size = 0
    /\ start_time = None
    /\ last_seq = None

Acquiring ==
    /\ active_channels # <<>>
    /\ RangeOf(active_channels) \subseteq 0..5
    /\ StrictlyAscending(active_channels)
    /\ frame_size = FrameSizeTable[Len(active_channels)]
    /\ frame_size > 0
    /\ IsSome(start_time)

\* The sequence number carried by a raw frame, and whether the frame is the
\* device's frame with its checksum nibble untouched.
SeqOf(raw) == raw[Len(raw)] \div 16
Intact(raw) == raw = DeviceFrame(Len(raw), SeqOf(raw), 0)

(***************************************************************************)
(* Properties.                                                             *)
(***************************************************************************)

\* C1: in every reachable state the session is either Idle (no channels,
\* frame_size 0, no start instant, no last-seen sequence) or Acquiring
\* (non-empty strictly ascending channels within 0..5, the frame size of that
\* channel count, a start instant); elapsed_us() is present exactly when
\* Acquiring and a last-seen sequence only when Acquiring.
C1_IdleOrAcquiring ==
    /\ Idle \/ Acquiring
    /\ IsSome(elapsed_us) <=> Acquiring
    /\ IsSome(last_seq) => Acquiring

\* A failed stop() left an acquisition with a last-seen sequence in place.
C1_Witness ==
    /\ op = "stop"
    /\ ret.status = "Err"
    /\ Acquiring
    /\ IsSome(last_seq)

\* C2: after stop() has returned the session is Idle, whether or not the
\* stop command could be written and flushed.
C2_StopAlwaysClears == (op = "stop") => Idle

C4_StartCommit ==
    [][(/\ op' = "start"
        /\ args'[1] \in ValidRates
        /\ StartCall(args'[1], args'[2])) =>
                /\ ret'.status = "Ok" =>
                       /\ Len(written') = 3
                       /\ RangeOf(active_channels') = ChannelsIn(args'[2])
                       /\ StrictlyAscending(active_channels')
                       /\ frame_size' = FrameSizeTable[Cardinality(ChannelsIn(args'[2]))]
                       /\ sampling_rate' = args'[1]
                       /\ start_time' = Some(0)
                       /\ last_seq' = None
                       /\ ret'.value = Some(args'[1])
                       /\ Acquiring'
                /\ ret'.status = "Err" => (Idle' \/ UNCHANGED session)
                /\ ret'.error = "Io" => Idle'
                /\ ret'.status \in {"Ok", "Err"}]_vars

\* start(10, [3, 0, 3, 9]) succeeded.
C4_Witness ==
    /\ op = "start"
    /\ ret.status = "Ok"
    /\ active_channels = <<0, 3>>
    /\ frame_size = 4
    /\ sampling_rate = 10
    /\ start_time = Some(0)

RateCodeRef(r) == CASE r = 1 -> 0 [] r = 10 -> 1 [] r = 100 -> 2 [] r = 1000 -> 3
MaskRef(S) ==
    LET b(ch) == IF ch \in S THEN 2 ^ (2 + ch) ELSE 0
    IN b(0) + b(1) + b(2) + b(3) + b(4) + b(5)

\* C5: a successful start writes exactly stop 0x00, (rate_code << 6) | 0x03
\* and channel_bitmask | 0x01, in this order, bit 2 + ch of the bitmask being
\* set exactly for the normalized channels; when the initial stop fails, start
\* returns an error and neither the rate nor the channel command is written.
C5_StartCommandBytes ==
    [][(/\ op' = "start"
        /\ args'[1] \in ValidRates
        /\ StartCall(args'[1], args'[2])) =>
                /\ ret'.status = "Ok" =>
                       written' = <<0, RateCodeRef(args'[1]) * 64 + 3, MaskRef(ChannelsIn(args'[2])) + 1>>
                /\ ret'.error = "StopFailed" =>
                       /\ ret'.status = "Err"
                       /\ written' \in {<<>>, <<0>>}]_vars

\* start(100, [3, 0, 3, 9]) wrote 0x00, 0x83, 0x25.
C5_Witness ==
    /\ op = "start"
    /\ ret.status = "Ok"
    /\ written = <<0, 131, 37>>

\* C6: a start with a valid rate and no channel in 0..5 returns an error,
\* writes at most the stop command (neither the rate nor the channel command)
\* and leaves the session Idle; a successful start stores exactly the channels
\* of the list that lie in 0..5, once each, in ascending order.
C6_NoValidChannelsIdle ==
    /\ (/\ op = "start"
        /\ args[1] \in ValidRates
        /\ ChannelsIn(args[2]) = {}) =>
            /\ ret.status = "Err"
            /\ written \in {<<>>, <<0>>}
            /\ Idle
    /\ (op = "start" /\ ret.status = "Ok") =>
            /\ RangeOf(active_channels) = ChannelsIn(args[2])
            /\ StrictlyAscending(active_channels)

\* C7: read_frames_timed called on an Idle session returns an error, issues
\* no transport read and changes no session field.
C7_ReadWhileIdle ==
    [][(/\ op' = "read_frames_timed"
        /\ Idle
        /\ ReadFramesTimedCall(args'[1])) =>
                /\ ret'.status = "Err"
                /\ pc' = "ready"
                /\ reads' = 0
                /\ UNCHANGED session]_vars

\* A read was refused on an Idle session.
C7_Witness ==
    /\ op = "read_frames_timed"
    /\ ret.error = "NotStarted"
    /\ reads = 0
    /\ Idle

\* C8: while reads succeed a batch read never returns an error: each delivered
\* frame either joins `frames` or, exactly when its checksum nibble was
\* corrupted, adds one to crc_errors, and the batch returned after n frames
\* has frames.len() + crc_errors = n.
C8_BatchAccounting ==
    [][pc = "read_frames_timed" =>
        /\ (i' = i + 1 /\ ReadFrameWith(buffer')) =>
               /\ pc' = "read_frames_timed"
               /\ ret'.status # "Err"
               /\ crc_errors' = crc_errors + (IF Intact(buffer') THEN 0 ELSE 1)
               /\ Len(frames') + crc_errors' = i'
        /\ ReadReturn =>
               /\ ret'.status = "Ok"
               /\ Len(frames) + crc_errors = n_frames]_vars

\* A batch of two frames is complete: one frame was kept, one was discarded.
C8_Witness ==
    /\ pc = "read_frames_timed"
    /\ n_frames = 2
    /\ i = 2
    /\ Len(frames) = 1
    /\ crc_errors = 1

GapRef(last, observed) ==
    LET gap == (observed - (last + 1)) % 16
    IN IF 0 < gap /\ gap < 8 THEN gap ELSE 0

\* C9: when a CRC-valid frame with sequence number `observed` follows the
\* last-seen sequence `last`, sequence_gaps grows by
\* gap = (observed - (last + 1)) mod 16 if 0 < gap < 8, and by 0 otherwise.
C9_GapCount ==
    [][(/\ pc = "read_frames_timed"
        /\ i' = i + 1
        /\ ReadFrameWith(buffer')
        /\ Intact(buffer')
        /\ IsSome(last_seq)) =>
            sequence_gaps' = sequence_gaps + GapRef(Unwrap(last_seq), SeqOf(buffer'))]_vars

\* Sequence 8 followed sequence 0: seven frames were counted as lost.
C9_Witness ==
    /\ pc = "read_frames_timed"
    /\ Len(frames) = 1
    /\ last_seq = Some(8)
    /\ sequence_gaps = 7

\* C10: every CRC-valid frame of a batch becomes the last-seen sequence number
\* and is appended to `frames`, whatever the gap; a frame that fails the CRC
\* check changes neither the last-seen sequence number nor `frames`.
C10_LastSeqUpdate ==
    [][(pc = "read_frames_timed" /\ i' = i + 1 /\ ReadFrameWith(buffer')) =>
            IF Intact(buffer')
            THEN /\ last_seq' = Some(SeqOf(buffer'))
                 /\ Len(frames') = Len(frames) + 1
                 /\ SubSeq(frames', 1, Len(frames)) = frames
                 /\ frames'[Len(frames')].seq = SeqOf(buffer')
            ELSE /\ last_seq' = last_seq
                 /\ frames' = frames]_vars

\* Sequence 0 was accepted right after sequence 0 (a gap of 15, not counted).
C10_Witness ==
    /\ pc = "read_frames_timed"
    /\ Len(frames) = 2
    /\ frames[1].seq = 0
    /\ frames[2].seq = 0
    /\ last_seq = Some(0)
    /\ sequence_gaps = 0

\* C11: a transport read of a batch that delivers no frame (a read error, a
\* timeout or a short read) ends read_frames_timed at once with an error: the
\* call has returned, no batch is returned and the frames decoded so far are
\* dropped with the locals.
C11_ReadErrorAborts ==
    [][(/\ pc = "read_frames_timed"
        /\ reads' = reads + 1
        /\ ~ReadFrameWith(buffer')) =>
            /\ pc' = "ready"
            /\ ret'.status = "Err"
            /\ ret'.value = None
            /\ frames' = <<>>
            /\ UNCHANGED <<session, op, written, wire, connection>>]_vars

\* The second read of a batch of two failed after the first frame was accepted.
C11_Witness ==
    /\ op = "read_frames_timed"
    /\ pc = "ready"
    /\ args = <<2>>
    /\ ret.error = "Io"
    /\ reads = 2
    /\ IsSome(last_seq)

\* The checksum of spec.md computed with plain arithmetic: an 8-bit
\* accumulator, shifted left for every bit (most significant first), XOR-ed
\* with 0x03 when its bit 4 is set, then XOR-ed with the bit; the low nibble
\* of the last byte counts as cleared.
ChecksumStepRef(x, b) ==
    LET s == (2 * x) % 256
        f == IF (s \div 16) % 2 = 1 THEN (s - (s % 4)) + (3 - (s % 4)) ELSE s
    IN IF b = 0 THEN f ELSE IF f % 2 = 0 THEN f + 1 ELSE f - 1
BitsOf(data) ==
    [k \in 1..(8 * Len(data)) |->
        LET byte == data[(k - 1) \div 8 + 1]
            cleared == IF k > 8 * Len(data) - 8 THEN byte - (byte % 16) ELSE byte
        IN (cleared \div (2 ^ (7 - ((k - 1) % 8)))) % 2]
RECURSIVE ChecksumOverRef(_, _, _)
ChecksumOverRef(bits, k, x) ==
    IF x >= 0 /\ k <= Len(bits) THEN ChecksumOverRef(bits, k + 1, ChecksumStepRef(x, bits[k])) ELSE x
ChecksumRef(data) == ChecksumOverRef(BitsOf(data), 1, 0) % 16
WithNibble(data, x) == [data EXCEPT ![Len(data)] = (data[Len(data)] - (data[Len(data)] % 16)) + x]

\* C12: for a non-empty buffer exactly one of the 16 values of the low nibble
\* of the last byte verifies, the checksum computed over the buffer with that
\* nibble cleared: the buffer verifies iff it carries that checksum, it
\* verifies once the checksum is put in, and it fails under each of the 15
\* other nibbles.  An empty buffer never verifies.
C12_ExactlyOneNibble ==
    (op = "verify_crc") =>
        IF buffer = <<>>
        THEN ret.value = Some(FALSE)
        ELSE /\ ret.value = Some(buffer[Len(buffer)] % 16 = ChecksumRef(buffer))
             /\ {x \in 0..15 : verify_crc(WithNibble(buffer, x))} = {ChecksumRef(buffer)}

\* An eight-byte buffer with the right checksum nibble was verified.
C12_Witness ==
    /\ op = "verify_crc"
    /\ Len(buffer) = 8
    /\ buffer[1] # buffer[2]
    /\ ret.value = Some(TRUE)

FrameBitsRef(n) == IF n <= 4 THEN 12 + 10 * n ELSE 52 + 6 * (n - 4)
CeilDiv8(bits) == CHOOSE q \in 0..bits : 8 * q >= bits /\ 8 * (q - 1) < bits

\* C13: the frame size of a session with n active channels is
\* ceil(bits / 8) bytes, bits = 12 + 10 n for n <= 4 and 52 + 6 (n - 4) for
\* n > 4, that is 3, 4, 6, 7, 8, 8 bytes for n = 1..6, and 0 for n = 0.
C13_FrameSize ==
    LET n == Len(active_channels)
    IN /\ n \in 0..6
       /\ n = 0 => frame_size = 0
       /\ n > 0 => /\ frame_size = CeilDiv8(FrameBitsRef(n))
                   /\ frame_size = FrameSizeTable[n]

\* Five channels: 58 bits, 8 bytes.
C13_Witness ==
    /\ Len(active_channels) = 5
    /\ frame_size = 8
    /\ op = "decode_frame"

\* C14: a decoded frame has one analog value per active channel, seq is the
\* upper nibble of the last raw byte, digital holds bits 7, 6, 5, 4 of the
\* second-to-last raw byte, the first four analog values lie in 0..1023 and
\* the fifth and sixth in 0..63.
C14_FrameShape ==
    (op = "decode_frame") =>
        LET frame == frames[1]
            len == Len(buffer)
        IN /\ Len(frame.analog) = Len(active_channels)
           /\ frame.seq = buffer[len] \div 16
           /\ frame.seq \in 0..15
           /\ frame.digital = [k \in 1..4 |-> (buffer[len - 1] \div (2 ^ (8 - k))) % 2]
           /\ \A k \in 1..Len(frame.analog) :
                  frame.analog[k] \in (IF k <= 4 THEN 0..1023 ELSE 0..63)

\* A six-channel frame of 0xFF bytes decoded to the largest value of every field.
C14_Witness ==
    /\ op = "decode_frame"
    /\ frames[1].analog = <<1023, 1023, 1023, 1023, 63, 63>>
    /\ frames[1].digital = <<1, 1, 1, 1>>
    /\ frames[1].seq = 15

\* The numeric token at the start of a string: digits, optionally followed by
\* a point and digits.  TokenAtLeast42 holds when there is one and its value
\* is at least 4.2.
RECURSIVE LeadingDigits(_)
LeadingDigits(str) ==
    IF str # <<>> /\ IsDigit(Head(str)) THEN 1 + LeadingDigits(Tail(str)) ELSE 0
TokenAtLeast42(rest) ==
    LET ip == LeadingDigits(rest)
        dot == Len(rest) > ip /\ rest[ip + 1] = "."
        fp == IF dot THEN LeadingDigits(SubSeq(rest, ip + 2, Len(rest))) ELSE 0
        digits == SubSeq(rest, 1, ip) \o SubSeq(rest, ip + 2, ip + 1 + fp)
    IN /\ ip + fp > 0
       /\ DigitsValue(digits) * 10 >= 42 * (10 ^ fp)
NewerRef(version) ==
    LET lower == to_lowercase(version)
    IN \E p \in 1..Len(lower) :
          /\ lower[p] = "v"
          /\ TokenAtLeast42(SubSeq(lower, p + 1, Len(lower)))

\* C15: after a successful version() the device is classified as the newer
\* generation exactly when the version string holds a "v" marker (either
\* case, with or without an underscore before it) followed by a numeric token
\* of value at least 4.2.
C15_NewerIffAtLeast42 ==
    (op = "version" /\ ret.status = "Ok") =>
        (is_bitalino2 <=> NewerRef(Unwrap(ret.value)))

\* C16: whenever version() returns Ok the session is Idle, and the command
\* bytes it wrote are the stop command 0x00 followed by the version command
\* 0x07.
C16_VersionForcesIdle ==
    (op = "version" /\ ret.status = "Ok") =>
        /\ Idle
        /\ written \in {<<0, 7>>, <<7>>}      \* <<7>>: the write of 0x00 itself failed

NotABuiltinOutcome(e) == e.read \notin Delimiters \cup {"Ok(0)", "WouldBlock", "TimedOut", "Other"}
PayloadOf(events) ==
    LET sel == SelectSeq(events, NotABuiltinOutcome)
    IN [k \in 1..Len(sel) |-> sel[k].read]

C18_StateRefused ==
    [][(State /\ (Acquiring \/ ~is_bitalino2)) =>
            /\ ret'.status = "Err"
            /\ ret'.error \in {"Acquiring", "NotBitalino2"}
            /\ written' = <<>>
            /\ reads' = 0
            /\ UNCHANGED session]_vars

\* state() was refused on a newer-generation device that is acquiring.
C18_Witness ==
    /\ op = "state"
    /\ ret.error = "Acquiring"
    /\ is_bitalino2
    /\ Acquiring

StateLayoutRef(data) ==
    LET B(k) == data[k + 1]
    IN [analog |-> [k \in 1..6 |-> 256 * B(2 * k - 1) + B(2 * k - 2)],
        battery |-> 256 * B(13) + B(12),
        battery_threshold |-> B(14),
        digital |-> [k \in 1..4 |-> (B(15) \div (2 ^ (8 - k))) % 2]]
StateValueIs(value, ref) ==
    /\ value.analog = ref.analog
    /\ value.battery = ref.battery
    /\ value.battery_threshold = ref.battery_threshold
    /\ value.digital = ref.digital

C20_StateRanges ==
    (op = "state" /\ ret.status = "Ok") =>
        LET value == Unwrap(ret.value)
        IN /\ \A k \in 1..6 : value.analog[k] \in 0..1023
           /\ value.battery \in 0..1023
           /\ value.battery_threshold \in 0..63
           /\ \A k \in 1..4 : value.digital[k] \in {0, 1}

OutputRef(outputs, k) == IF k <= Len(outputs) THEN outputs[k] % 2 ELSE 0
GatedCommandRef ==
    CASE op = "set_battery_threshold" ->
            <<(IF args[1] < 63 THEN args[1] ELSE 63) * 4>>
      [] op = "pwm" -> <<163, args[1]>>
      [] op = "trigger" /\ is_bitalino2 ->
            <<179 + 8 * OutputRef(args[1], 2) + 4 * OutputRef(args[1], 1)>>
      [] op = "trigger" /\ ~is_bitalino2 ->
            <<3 + 32 * OutputRef(args[1], 4) + 16 * OutputRef(args[1], 3)
                + 8 * OutputRef(args[1], 2) + 4 * OutputRef(args[1], 1)>>
GatedCommandUnmet ==
    \/ op = "set_battery_threshold" /\ Acquiring
    \/ op = "pwm" /\ ~is_bitalino2
    \/ op = "trigger" /\ ~is_bitalino2 /\ Idle

\* C21: set_battery_threshold while Acquiring, pwm on a device not detected
\* as the newer generation and trigger on the older generation while Idle
\* fail and write no byte; otherwise the call that succeeds has written
\* min(threshold, 63) << 2, or 0xA3 then the value, or the trigger byte of
\* the device's generation, and a call the transport fails has written at
\* most a prefix of those bytes.
C21_GatedCommands ==
    (op \in {"set_battery_threshold", "pwm", "trigger"}) =>
        IF GatedCommandUnmet
        THEN ret.status = "Err" /\ written = <<>>
        ELSE /\ ret.status = "Ok" => written = GatedCommandRef
             /\ ret.status = "Err" =>
                    /\ ret.error = "Io"
                    /\ Len(written) <= Len(GatedCommandRef)
                    /\ written = SubSeq(GatedCommandRef, 1, Len(written))

\* trigger succeeded on an acquiring device of the older generation, with
\* O2 and O4 set.
C21_Witness ==
    /\ op = "trigger"
    /\ ~is_bitalino2
    /\ Acquiring
    /\ ret.status = "Ok"
    /\ args = <<(<<2, 1, 0, 1>>)>>
    /\ written = <<43>>

\* C28: the sampling-rate parser accepts exactly 1, 10, 100 and 1000 and
\* returns an error for every other 16-bit value; the accepted rates have
\* the protocol codes 0, 1, 2, 3 in that order.
C28_RateParser ==
    /\ op = "from_u16_checked" =>
          IF args[1] \in {1, 10, 100, 1000}
          THEN ret = Ok(Some(args[1]))
          ELSE ret.status = "Err"
    /\ op = "to_bits" =>
          /\ args[1] = 1 => ret = Ok(Some(0))
          /\ args[1] = 10 => ret = Ok(Some(1))
          /\ args[1] = 100 => ret = Ok(Some(2))
          /\ args[1] = 1000 => ret = Ok(Some(3))

\* 100 Hz was parsed and has the code 10.
C28_Witness ==
    /\ op = "to_bits"
    /\ args = <<100>>
    /\ ret = Ok(Some(2))

\* C29: timestamp_us is the time elapsed since the start instant when
\* read_frames_timed is entered; no later step of the batch changes it,
\* however far the clock advances while the reads block; and the elapsed
\* time of an acquisition, hence the timestamps of its successive batches,
\* only goes back when a start succeeds.
C29_TimestampAtEntry ==
    [][/\ (pc = "ready" /\ pc' = "read_frames_timed") =>
              /\ IsSome(start_time)
              /\ timestamp_us' = Unwrap(start_time)
       /\ (pc = "read_frames_timed" /\ pc' = "read_frames_timed") =>
              timestamp_us' = timestamp_us
       /\ (pc = "read_frames_timed" /\ ReadReturn) =>
              timestamp_us <= Unwrap(start_time)
       /\ (IsSome(start_time) /\ IsSome(start_time')
             /\ Unwrap(start_time') < Unwrap(start_time)) =>
              op' = "start" /\ ret'.status = "Ok"]_vars

\* A frame of the batch was read after the clock had advanced past the
\* timestamp of the batch.
C29_Witness ==
    /\ pc = "read_frames_timed"
    /\ i > 0
    /\ IsSome(start_time)
    /\ timestamp_us < Unwrap(start_time)

\* C30: start called with a sampling rate other than 1, 10, 100 and 1000
\* falls back to 1000 Hz: unless the transport fails or no channel is valid,
\* the acquisition starts and the returned rate is 1000.
C30_InvalidRateDefaults ==
    (op = "start" /\ args[1] \notin {1, 10, 100, 1000}) =>
        \/ ret.status = "Err" /\ ret.error \in {"Io", "StopFailed", "NoValidChannels"}
        \/ /\ ret = Ok(Some(1000))
           /\ sampling_rate = 1000
           /\ Acquiring

\* C27: when an operation has returned, every byte it wrote to the transport
\* is followed at once by a flush and then by a settle delay, so that no two
\* bytes are written back to back.
C27_EveryByteSettled ==
    pc = "ready" =>
        \A k \in 1..Len(wire) :
            wire[k].ev = "write" =>
                /\ k + 2 <= Len(wire)
                /\ wire[k + 1].ev = "flush"
                /\ wire[k + 2].ev = "sleep"

InLoop == cpc \notin {"call", "scan", "pair", "trust", "returned"}
SocketsOpen == {d[1] : d \in fds}

\* C22: pair_and_connect opens a socket at most max_retries times; every
\* open that succeeds is followed by verify_connected; the call returns a
\* stream exactly when a verification succeeds, the stream being the one of
\* that attempt, which is the first to open and verify and the last made; a
\* verification that reports an error counts as a failed attempt and the
\* next attempt follows.
C22_RetryLoop ==
    [][/\ opens' <= max_retries
       /\ (opens' # opens) => (opens' = opens + 1 /\ cpc = "loop" /\ opens' = attempt + 1)
       /\ (InLoop /\ cpc # "loop" /\ cpc' = "verify") => <<attempt, "fd">> \in fds'
       /\ (verifies' # verifies) => (cpc = "verify" /\ verifies' = verifies + 1)
       /\ (cpc = "verify") => (verifies' = verifies + 1 /\ cpc' \in {"returned", "loop"})
       /\ (cpc = "verify" /\ cpc' = "returned") =>
              /\ connected' = Ok(Some(<<attempt, "fd">>))
              /\ opens' = attempt + 1
       /\ (cpc = "verify" /\ cpc' = "loop") =>
              /\ attempt' = attempt + 1
              /\ IsSome(last_error') /\ Unwrap(last_error').at = <<attempt, "verify">>
              /\ connected' = Pending
       /\ (cpc = "loop" /\ attempt < max_retries) => (opens' = opens + 1 /\ cpc' # "returned")
       /\ (cpc # "returned" /\ cpc' = "returned") =>
              (connected'.status = "Ok" <=> cpc = "verify")
       /\ (cpc = "returned") => UNCHANGED connection]_vars

\* The third attempt opened, verified and returned its stream after one
\* attempt had failed to open or verify.
C22_Witness ==
    /\ cpc = "returned"
    /\ connected = Ok(Some(<<2, "fd">>))
    /\ opens = 3
    /\ verifies = 2
    /\ max_retries = MaxRetries

DelayRef(k) ==
    CASE k = 1 -> retry_delay
      [] k = 2 -> 2 * retry_delay
      [] k = 3 -> 4 * retry_delay
      [] k >= 4 -> 8 * retry_delay
RECURSIVE Total(_)
Total(q) == IF q = <<>> THEN 0 ELSE Head(q) + Total(Tail(q))

\* C23: nothing is slept before the first attempt nor after the last failed
\* one; the delay slept before attempt k (from 0) is
\* retry_delay * 2^min(k - 1, 3), never more than 8 * retry_delay; with
\* max_retries = 3 and 500 ms, three failed attempts have slept 1500 ms.
C23_Backoff ==
    /\ Len(slept) = IF opens = 0 THEN 0 ELSE opens - 1
    /\ \A k \in 1..Len(slept) : slept[k] = DelayRef(k) /\ slept[k] <= 8 * retry_delay
    /\ (/\ cpc = "returned" /\ connected.status = "Err"
        /\ max_retries = 3 /\ retry_delay = 500 /\ opens = 3) =>
            (slept = <<500, 1000>> /\ Total(slept) = 1500)

\* Three attempts out of three failed with the default delay.
C23_Witness ==
    /\ cpc = "returned"
    /\ connected.status = "Err"
    /\ max_retries = 3
    /\ retry_delay = 500
    /\ opens = 3
    /\ Total(slept) = 1500

LoopGaveUp ==
    /\ cpc = "returned"
    /\ connected.status = "Err"
    /\ connected.error.at[2] \notin {"call", "scan", "pair"}

\* C24: when every attempt failed, pair_and_connect returns the error the
\* last attempt observed, at its open or at its verification; with
\* max_retries = 0 it returns NotConnected("max retries exceeded") and has
\* opened no socket.
C24_LastError ==
    LoopGaveUp =>
        IF max_retries = 0
        THEN /\ connected.error.kind = "NotConnected"
             /\ connected.error.text = "max retries exceeded"
             /\ opens = 0
        ELSE /\ connected.error.at[1] = max_retries - 1
             /\ connected.error.at[2] \in {"verify"} \cup {OpenSteps[k] : k \in 1..Len(OpenSteps)}
             /\ opens = max_retries

\* After several attempts the call returned the verification error of the last one.
C24_Witness ==
    /\ LoopGaveUp
    /\ max_retries = 3
    /\ connected.error.at = <<2, "verify">>
    /\ connected.error.kind = "NotConnected"

\* C25: at most one socket opened by pair_and_connect is open at any time;
\* none is open when an attempt starts, nor after pair_and_connect failed;
\* after a success the only one open is the stream returned.
C25_NoSocketLeak ==
    /\ Cardinality(SocketsOpen) <= 1
    /\ cpc \in {"call", "scan", "pair", "trust", "loop"} => fds = {}
    /\ (cpc = "returned" /\ connected.status = "Err") => fds = {}
    /\ (cpc = "returned" /\ connected.status = "Ok") => fds = {Unwrap(connected.value)}
    /\ InLoop => SocketsOpen \subseteq {attempt}

\* The second attempt is about to start after a first one whose socket was
\* opened, failed a setup step and was closed.
C25_Witness ==
    /\ cpc = "loop"
    /\ attempt = 1
    /\ IsSome(last_error)
    /\ Unwrap(last_error).at[2] \in {"connect", "sndtimeo"}
    /\ fds = {}

\* C26: on the pairing-capable build, if the target device never appears
\* in the discovery stream, a scan that has started eventually ends with the
\* not-found error carrying the MAC address.
C26_ScanTimesOut ==
    ([](event # Some("target"))) =>
        [](cpc = "scan" =>
              <>(/\ cpc = "returned"
                 /\ connected.status = "Err"
                 /\ connected.error.kind = "NotFound"
                 /\ connected.error.text = "mac"))

\* C31: state() returns an error when the checksum nibble of the response
\* it read differs from the CRC computed over the response.
C31_StateCrcError ==
    (/\ op = "state"
     /\ args # <<>>
     /\ args[1][16] % 16 # ChecksumRef(args[1])) => ret.status = "Err"

\* C32: with every read returning and the clock advancing, a version() call
\* whose response deadline has passed eventually returns.
C32_VersionReturns == (pc = "version" /\ now > deadline) ~> (pc = "ready")

\* The buffer with bit b of its k-th byte flipped, the fields of a decoded
\* frame in one list, and the number of fields in which two frames differ.
FlipBit(data, k, b) ==
    [data EXCEPT ![k] = IF Bit(data[k], b) = 1 THEN data[k] - Pow2(b) ELSE data[k] + Pow2(b)]
FieldsOf(frame) == <<frame.seq>> \o frame.digital \o frame.analog
FieldsChanged(f, g) ==
    Cardinality({k \in 1..Len(FieldsOf(f)) : FieldsOf(f)[k] # FieldsOf(g)[k]})
IsChecksumBit(data, k, b) == k = Len(data) /\ b < 4

\* C33: flipping one bit of a frame-sized buffer changes at most one decoded
\* field (seq, a digital line or an analog value); flipping a checksum bit
\* changes none; with six channels flipping any of the 60 other bits changes
\* exactly one.
C33_DecodePartitions ==
    (op = "decode_frame") =>
        \A k \in 1..Len(buffer), b \in 0..7 :
            LET flipped == decode_frame(FlipBit(buffer, k, b), Len(active_channels))
                changed == FieldsChanged(frames[1], flipped)
            IN /\ changed <= 1
               /\ IsChecksumBit(buffer, k, b) => changed = 0
               /\ (Len(active_channels) = 6 /\ ~IsChecksumBit(buffer, k, b)) => changed = 1

\* A six-channel frame decoded, in which bit 0 of data[1] is a bit of the
\* fifth analog value and the lowest bit of data[7] belongs to no field.
C33_Witness ==
    /\ op = "decode_frame"
    /\ Len(active_channels) = 6
    /\ Len(buffer) = 8
    /\ decode_frame(FlipBit(buffer, 2, 0), 6).analog[5] # frames[1].analog[5]
    /\ decode_frame(FlipBit(buffer, 8, 0), 6) = frames[1]

\* The bit-serial checksum with an accumulator of unbounded width, held as its
\* binary digits, lowest first: shift left, XOR 3 when bit 4 is set, XOR in
\* the payload bit; the payload bits are those of BitsOf (MSB first, low
\* nibble of the last byte cleared).
WideStepRef(acc, b) ==
    LET s == <<0>> \o acc
        f == IF Len(s) >= 5 /\ s[5] = 1
             THEN [s EXCEPT ![1] = 1 - s[1], ![2] = 1 - s[2]]
             ELSE s
    IN [f EXCEPT ![1] = (f[1] + b) % 2]
RECURSIVE WideOverRef(_, _, _)
WideOverRef(bits, k, acc) ==
    IF Len(acc) >= 0 /\ k <= Len(bits)
    THEN WideOverRef(bits, k + 1, WideStepRef(acc, bits[k]))
    ELSE acc
WideChecksumRef(data) ==
    LET acc == WideOverRef(BitsOf(data), 1, <<>>)
    IN acc[1] + 2 * acc[2] + 4 * acc[3] + 8 * acc[4]

\* C34: the checksum state() computes over a 16-byte response is the one
\* verify_crc accepts on the same bytes, and both are the checksum of the
\* bit-serial algorithm run with an accumulator that is never truncated.
C34_OneChecksum ==
    (op = "state") =>
        /\ ret.value = Some(WideChecksumRef(buffer))
        /\ verify_crc(buffer) <=> (buffer[16] % 16 = Unwrap(ret.value))
        /\ verify_crc(WithNibble(buffer, Unwrap(ret.value)))

\* The checksum of a 16-byte response that carries another nibble was computed.
C34_Witness ==
    /\ op = "state"
    /\ Len(buffer) = 16
    /\ Unwrap(ret.value) # 0
    /\ buffer[16] % 16 \notin {0, Unwrap(ret.value)}

\* C35: on the pairing-capable path a socket is opened only from the retry
\* loop and only for a device that was found and is paired; a call that
\* returns from the scan or from pairing returns an error without having
\* opened a socket; and whatever set_trusted answers, the call goes on to the
\* retry loop.
C35_PairBeforeOpen ==
    [][/\ (bluez /\ opens' # opens) =>
              /\ cpc = "loop"
              /\ IsSome(device)
              /\ Unwrap(device).paired
       /\ (bluez /\ cpc \in {"scan", "pair"} /\ cpc' = "returned") =>
              /\ connected'.status = "Err"
              /\ opens' = 0
       /\ (bluez /\ cpc \in {"scan", "pair"}) => opens = 0
       /\ (cpc = "trust") =>
              /\ cpc' = "loop"
              /\ connected' = connected
              /\ opens' = opens]_vars

\* A socket-open attempt on a paired device that could not be marked trusted.
C35_Witness ==
    /\ bluez
    /\ opens > 0
    /\ cpc \in {OpenSteps[k] : k \in 1..Len(OpenSteps)}
    /\ IsSome(device)
    /\ Unwrap(device).paired
    /\ ~Unwrap(device).trusted

\* C36: a new session holds the older generation, and the generation flag
\* changes only in a version() call that returns Ok, which sets it from the
\* version string it returns.
C36_GenerationOnlyByVersion ==
    /\ ~is_bitalino2
    /\ [][(is_bitalino2' # is_bitalino2) =>
              /\ op' = "version"
              /\ ret'.status = "Ok"
              /\ is_bitalino2' = detect_bitalino2(Unwrap(ret'.value))]_vars

\* A session that was classified as newer has had a failing version() since.
C36_Witness ==
    /\ is_bitalino2
    /\ op = "version"
    /\ ret.status = "Err"

\* C37: the last-seen sequence number is carried from one read_frames_timed
\* call to the next: entering and leaving a call keep it, only an accepted
\* frame, a start, a stop or a version query change it, and every CRC-valid
\* frame is counted against it, in whichever call it was stored.  After a
\* successful start there is none, so the first CRC-valid frame adds nothing.
C37_GapsAcrossBatches ==
    /\ [](op = "start" /\ ret.status = "Ok" => last_seq = None)
    /\ [][/\ (pc # pc') => last_seq' = last_seq
          /\ (last_seq' # last_seq) =>
                \/ pc = "read_frames_timed" /\ i' = i + 1 /\ Intact(buffer')
                \/ op' \in {"start", "stop", "version"}
          /\ (pc = "read_frames_timed" /\ i' = i + 1 /\ Intact(buffer')) =>
                sequence_gaps' = sequence_gaps +
                    (IF IsSome(last_seq) THEN GapRef(Unwrap(last_seq), SeqOf(buffer')) ELSE 0)]_vars

\* The first frame of a batch was counted against the last frame of the batch
\* before it.
C37_Witness ==
    /\ pc = "read_frames_timed"
    /\ i = 1
    /\ Len(frames) = 1
    /\ sequence_gaps = 7
    /\ last_seq = Some(8)

\* C38: a frame is decoded only from a buffer that passed the CRC check and
\* has the frame size computed for the number of active channels, and every
\* byte decode_frame indexes in it (last, last - 1, ... down to last - 7) lies
\* within the buffer.
C38_DecodeInBounds ==
    [][(Len(frames') = Len(frames) + 1) =>
          LET n == Len(active_channels)
          IN /\ n \in 1..6
             /\ frame_size = calculate_frame_size(n)
             /\ Len(buffer') = frame_size
             /\ verify_crc(buffer')
             /\ \A k \in decode_frame_reads(n) : (Len(buffer') - 1) - k \in 0..(frame_size - 1)
             /\ frames'[Len(frames')] = decode_frame(buffer', n)]_vars

\* A frame of a five-channel acquisition was decoded: data[last - 7] is the
\* first byte of its 8-byte buffer.
C38_Witness ==
    /\ pc = "read_frames_timed"
    /\ Len(frames) = 1
    /\ Len(active_channels) = 5
    /\ Len(buffer) = 8
    /\ 7 \in decode_frame_reads(5)

\* C39: when read_frames_timed returns an error the session is still
\* Acquiring with the channels, frame size, rate and start instant it had, the
\* frames decoded in the call are gone, and the last-seen sequence number
\* stays that of the last CRC-valid frame decoded before the error.
C39_ReadErrorKeepsLastSeq ==
    [][(pc = "read_frames_timed" /\ pc' = "ready" /\ ret'.status = "Err") =>
          /\ Acquiring
          /\ Acquiring'
          /\ <<active_channels, frame_size, sampling_rate, start_time>>'
                = <<active_channels, frame_size, sampling_rate, start_time>>
          /\ last_seq' = last_seq
          /\ (frames # <<>>) => last_seq' = Some(frames[Len(frames)].seq)
          /\ frames' = <<>>]_vars

\* The second read of a batch failed after a frame with sequence number 8 had
\* been decoded.
C39_Witness ==
    /\ op = "read_frames_timed"
    /\ pc = "ready"
    /\ ret = Err("Io")
    /\ reads = 2
    /\ last_seq = Some(8)
    /\ frames = <<>>
    /\ Acquiring

\* C40: state, trigger, pwm, set_battery_threshold and read_frames_timed leave
\* the active channels, the frame size, the sampling rate and the start
\* instant as they are, whatever they return; the sampling rate is 1000 Hz in
\* a new session and changes only in a start that returns Ok, to the rate of
\* that start, so that stop and a failed start keep it.
C40_ConfigurationFrame ==
    /\ sampling_rate = 1000
    /\ [][/\ (/\ ~Tick
              /\ op' \in {"state", "trigger", "pwm", "set_battery_threshold", "read_frames_timed"}) =>
                 <<active_channels, frame_size, sampling_rate, start_time>>'
                     = <<active_channels, frame_size, sampling_rate, start_time>>
          /\ (op' = "stop" \/ (op' = "start" /\ ret'.status = "Err")) =>
                 sampling_rate' = sampling_rate
          /\ (sampling_rate' # sampling_rate) =>
                 /\ op' = "start"
                 /\ ret'.status = "Ok"
                 /\ sampling_rate' = args'[1]]_vars

\* stop() has ended an acquisition at 10 Hz and the session still holds 10 Hz.
C40_Witness ==
    /\ op = "stop"
    /\ ret.status = "Ok"
    /\ Idle
    /\ sampling_rate = 10

====
